---- MODULE Spec2Model ----
(***************************************************************************)
(* A model of faststream's per-subscription dispatcher:                    *)
(*   BaseHandler.consume / start / close   (src/faststream/broker/handler.py) *)
(*   MultiLock                             (src/faststream/broker/handler.py) *)
(* of its retry policies:                                                  *)
(*   get_watcher                           (src/faststream/broker/utils.py) *)
(* and of the application life cycle:                                      *)
(*   FastStream.run / _startup / _shutdown (src/faststream/app.py)         *)
(*                                                                         *)
(* consume() is an asyncio coroutine.  Between two awaits its code runs    *)
(* atomically, so every action below is "one await completes, then the     *)
(* synchronous code up to the next await runs".  The pc of a task names    *)
(* the await it is suspended at.  The collaborators (middleware factories, *)
(* parser, decoder, filter, handler callable, publishers) are inputs: the  *)
(* outcome of each await is drawn with \E.                                 *)
(*                                                                         *)
(* The interpreter runs with assert statements executed (debug) or compiled *)
(* out (python -O); IS_OPTIMIZED is read from faststream._compat, which is  *)
(* not part of the modelled sources, and is an independent input.          *)
(***************************************************************************)
EXTENDS Integers, Sequences, FiniteSets, TLC

\* ------------------------------------------------------------------ bounds
MaxCalls == 2
MaxMiddlewares == 2
MaxPublishers == 1
MaxHeld == 3
MaxTries == 3
MaxHooks == 3
MaxRuns == 2
MaxSets == 1
\* the calls made on an application object and the signals sent to its process
MaxOps == 5
MaxSignals == 2
MaxDeclares == 3
\* the size of a dispatcher's configuration: its handler items, its middleware
\* factories (global and local) and its statically bound publishers
MaxSize == 3
\* the scope exits of one consume() call that raise or return a true value
MaxExitFaults == 1

\* concurrent deliveries (one asyncio task per inbound delivery)
Tasks == {"t1", "t2"}
\* raw messages; the parser copies the raw message's correlation id
Msgs == {"m1", "m2"}

\* Python's None, and Optional[x] as <<>> or a non-empty tuple
None == <<>>

\* graceful_timeout: Optional[float]
GracefulTimeouts == {None, <<0>>, <<1>>}

VARIABLES
    running,           \* BaseHandler.running
    calls,             \* BaseHandler.calls : List[HandlerItem]
    middlewares,       \* BaseHandler.middlewares : number of global factories
    graceful_timeout,  \* BaseHandler.graceful_timeout
    lock,              \* BaseHandler.lock : MultiLock (its asyncio.Queue)
    IS_OPTIMIZED,      \* faststream._compat.IS_OPTIMIZED
    debug,             \* the interpreter's __debug__: assert statements are executed
    tasks,             \* one consume() frame per delivery task
    closer,            \* the application's close() call: "idle", or suspended
                       \* in wait_release: "join", "woken", "expired"
    client,            \* direct users of a MultiLock (`with lock:`)
    watcher,           \* the BaseWatcher made by get_watcher, or None
    app,               \* a FastStream application (src/faststream/app.py)
    declarer           \* a RabbitDeclarer (src/faststream/rabbit/helpers.py)

vars == <<running, calls, middlewares, graceful_timeout, lock, IS_OPTIMIZED, debug,
          tasks, closer, client, watcher, app, declarer>>

\* the components a step of the dispatcher does not touch
elsewhere == <<client, watcher, app, declarer>>

config == <<calls, middlewares, graceful_timeout, IS_OPTIMIZED, debug>>

\* ---------------------------------------------------------------- MultiLock

\* MultiLock.__init__: an empty asyncio.Queue (qsize, _unfinished_tasks)
MultiLockInit == [qsize |-> 0, unfinished |-> 0]

\* MultiLock.__enter__: queue.put_nowait(None)
MultiLockEnter(l) == [qsize |-> l.qsize + 1, unfinished |-> l.unfinished + 1]

\* (mutant) MultiLock.__exit__ without the suppress
MultiLockExitUnchecked(l) == [qsize |-> l.qsize - 1, unfinished |-> l.unfinished - 1]

\* MultiLock.__exit__: get_nowait() then task_done(), QueueEmpty and
\* ValueError suppressed
MultiLockExit(l) ==
    IF l.qsize = 0
    THEN l
    ELSE [qsize |-> l.qsize - 1,
          unfinished |-> IF l.unfinished = 0 THEN 0 ELSE l.unfinished - 1]

\* (mutant) `if timeout is not None:`
NotNone(timeout) == timeout # None

\* line 365: with suppress(asyncio.QueueEmpty, ValueError)
Suppressed == {"QueueEmpty", "ValueError"}

\* the exception that escapes MultiLock.__exit__: get_nowait() raises
\* QueueEmpty on an empty queue, task_done() raises ValueError when called
\* more often than put_nowait()
ExitRaises(l) ==
    LET e == IF l.qsize = 0 THEN <<"QueueEmpty">>
             ELSE IF l.unfinished = 0 THEN <<"ValueError">> ELSE None
    IN  IF e # None /\ e[1] \in Suppressed THEN None ELSE e

\* `if timeout:` of MultiLock.wait_release
Truthy(timeout) == timeout # None /\ timeout[1] # 0

\* (mutant) queue.join() waits for the next task_done() even when nothing is
\* unfinished
WaitReleaseJoinsAlways(timeout, l) == Truthy(timeout)

\* wait_release suspends only when the timeout is truthy and queue.join()
\* finds unfinished tasks
WaitReleaseBlocks(timeout, l) == Truthy(timeout) /\ l.unfinished > 0

\* task_done() bringing _unfinished_tasks to zero sets the queue's _finished
\* event, which resumes every coroutine suspended in queue.join()
Finished(l, l2) == l.unfinished > 0 /\ l2.unfinished = 0

\* -------------------------------------------------------------- consume()

\* an exception object: its class, where it was raised, and for which item
Err(kind, origin, i) == <<kind, origin, i>>

\* the frame of a consume() call that has not started; exc is the exception
\* leaving the outer `async with`, pending the one a consume_stack or
\* pub_stack is unwinding with; chain and pub_chain record the scope entries,
\* the call and the scope exits of the consume_stack and of the pub_stack
\* entered last, chain_item the item they were entered for, published_by the
\* item each publish was made for, faults the number of scope exits that
\* raised or returned a true value
IdleTask ==
    [pc |-> "idle", msg |-> "", i |-> 0, k |-> 0, p |-> 0,
     processed |-> FALSE, result |-> None, result_msg |-> None,
     correlation_id |-> "", msg_processed |-> FALSE,
     stack |-> <<>>, exc |-> None, pending |-> None, woken |-> FALSE, expired |-> FALSE,
     ret |-> None,
     was_running |-> FALSE, running_at_end |-> None,
     parsed |-> <<>>, fevals |-> <<>>, invoked |-> <<>>,
     published |-> <<>>, published_by |-> <<>>, triggers |-> <<>>,
     entered |-> <<>>, torn |-> <<>>,
     body |-> None, to_send |-> None, chain |-> <<>>, pub_chain |-> <<>>,
     chain_item |-> 0, faults |-> 0,
     log_context |-> None, log_context_tag |-> None, log_sets |-> <<>>,
     at_success |-> None]

\* the parser's envelope carries the raw message's correlation id
CorrelationId(msg) == <<"cid", msg>>

\* the value the handler callable of item i computes from a message
HandlerOutput(i, msg) == <<"out", i, msg>>

\* h.decoder(message): the decoded body of the envelope item i parsed
DecodedBody(i, msg) == <<"decoded", i, msg>>

\* self.log_context_builder(message), for the envelope item i parsed
LogContext(i, msg) == <<"log", i, msg>>

\* the value a middleware's consume_scope / publish_scope yields for value v
ScopeValue(kind, mw, v) == <<kind, mw, v>>

InLock(s) == Len(s.stack) > 0 /\ s.stack[1] = "lock"

IsMiddlewareScope(x) == x # "lock" /\ x # "handler_"

\* stack.enter_async_context(m(msg)) has returned: the Middleware Scope is
\* on the exit stack
EnterContext(s, scope) ==
    [s EXCEPT !.stack = Append(@, scope), !.entered = Append(@, scope)]

\* (mutant) the exit stack unwinds first-in first-out: it exits its outermost
\* middleware scope
PopContextOutermost(s) ==
    [s EXCEPT !.stack = SubSeq(@, 1, 2) \o SubSeq(@, 4, Len(@)),
              !.torn = Append(@, s.stack[3])]

\* (mutant) the exit stack drops its innermost scope without running its
\* __aexit__
PopContextNoExit(s) == [s EXCEPT !.stack = SubSeq(@, 1, Len(@) - 1)]

\* AsyncExitStack.__aexit__ pops its innermost scope and awaits its __aexit__
PopContext(s) ==
    [s EXCEPT !.stack = SubSeq(@, 1, Len(@) - 1),
              !.torn = Append(@, s.stack[Len(s.stack)])]

\* leaving `async with AsyncExitStack() as stack` once every middleware
\* scope is torn down: context.scope and the lock exit synchronously, then
\* either the pending exception propagates or lines 296-299 run
Finish(s) ==
    [s EXCEPT !.stack = <<>>, !.pc = "done",
              !.ret = IF s.exc = None THEN <<"return", s.result_msg>>
                                      ELSE <<"raise", s.exc>>,
              !.log_context = IF s.exc = None /\ s.log_context_tag # None
                              THEN s.log_context_tag[1] ELSE @]

\* AsyncExitStack.__aexit__: the entered contexts are exited in reverse order;
\* each middleware's __aexit__ is awaited
ExitStack(s) ==
    IF Len(s.stack) > 0 /\ IsMiddlewareScope(s.stack[Len(s.stack)])
    THEN [s EXCEPT !.pc = "exit"]
    ELSE Finish(s)

\* (mutant) the exception propagates without the exit stack being unwound
RaiseNoRelease(s, e) == [s EXCEPT !.exc = e, !.pc = "done", !.ret = <<"raise", e>>]

\* an exception leaving the body of the outer `async with`
Raise(s, e) == ExitStack([s EXCEPT !.exc = e])

\* (mutant) the assertion of line 294 is missing
AssertConsumedNever(s, r) == ExitStack(s)

\* line 294: assert not self.running or processed; the statement is compiled
\* out when the interpreter runs optimized
AssertConsumed(s, r) ==
    IF debug /\ r /\ ~s.processed
    THEN Raise(s, Err("AssertionError", "You have to consume message", 0))
    ELSE ExitStack(s)

\* the loop of line 217 has ended (exhausted, or left by line 292) while
\* self.running is r
AfterLoop(s, r) == AssertConsumed([s EXCEPT !.running_at_end = <<r>>], r)

\* lines 218-220: entering the k-th local middleware of item s.i, or line 225
EnterLocal(s, k) ==
    IF k <= calls[s.i].middlewares
    THEN [s EXCEPT !.pc = "local_mw", !.k = k]
    ELSE [s EXCEPT !.pc = "parser", !.k = 0]

\* line 217: the head of `for h in self.calls`, s.i being the next index
NextItem(s, r) ==
    IF s.i > Len(calls) THEN AfterLoop(s, r) ELSE EnterLocal(s, 1)

\* lines 211-217: entering the k-th global middleware, or starting the loop
EnterGlobal(s, k, r) ==
    IF k <= middlewares
    THEN [s EXCEPT !.pc = "gl_mw", !.k = k]
    ELSE NextItem([s EXCEPT !.processed = FALSE, !.i = 1, !.k = 0], r)


\* h.handler.trigger(result=..., error=...): the outcome recorded for item s.i
Trigger(s, result, error) ==
    [s EXCEPT !.triggers =
        Append(@, [h |-> s.i, result |-> result, error |-> error])]

\* line 222: all_middlewares = gl_middlewares + local_middlewares
AllMiddlewares(s) == middlewares + calls[s.i].middlewares

\* (mutant) the break of lines 291-292 is missing
OnSuccessNeverBreaks(s, r) ==
    LET s0 == [Trigger(s, IF s.result # None THEN s.result[1] ELSE None, None)
                  EXCEPT !.processed = TRUE, !.msg_processed = TRUE]
        s1 == [s0 EXCEPT !.at_success =
                  IF @ # None THEN @
                  ELSE [item |-> s.i,
                        invoked |-> Len(s0.invoked), published |-> Len(s0.published),
                        triggers |-> Len(s0.triggers), result_msg |-> s0.result_msg]]
    IN  NextItem([s1 EXCEPT !.i = s.i + 1], r)

\* lines 288-292: the else branch of the try; at_success keeps the item of the
\* call's first success, how many invocations, publishes and outcomes the call
\* had made by then and what it would return at that point
OnSuccess(s, r) ==
    LET s0 == [Trigger(s, IF s.result # None THEN s.result[1] ELSE None, None)
                  EXCEPT !.processed = TRUE, !.msg_processed = TRUE]
        s1 == [s0 EXCEPT !.at_success =
                  IF @ # None THEN @
                  ELSE [item |-> s.i,
                        invoked |-> Len(s0.invoked), published |-> Len(s0.published),
                        triggers |-> Len(s0.triggers), result_msg |-> s0.result_msg]]
    IN  IF IS_OPTIMIZED
        THEN AfterLoop(s1, r)
        ELSE NextItem([s1 EXCEPT !.i = s.i + 1], r)

\* line 278 and the next loop iteration, once self.close() has returned
AfterClose(s, r) ==
    NextItem([Trigger(s, None, None) EXCEPT !.i = s.i + 1, !.woken = FALSE,
                                            !.expired = FALSE], r)

\* lines 276-278: except StopConsume; close() has set running = False and
\* awaits lock.wait_release(graceful_timeout)
OnStopConsume(s, l) ==
    IF WaitReleaseBlocks(graceful_timeout, l)
    THEN [s EXCEPT !.pc = "close", !.woken = FALSE, !.expired = FALSE]
    ELSE AfterClose(s, FALSE)

\* (mutant) the HandlerException clause passes the error to trigger
OnHandlerExceptionWithError(s, e) == Raise(Trigger(s, None, e), e)

\* lines 280-282: except HandlerException
OnHandlerException(s, e) == Raise(Trigger(s, None, None), e)

\* (mutant) the Exception clause does not pass the error to trigger
OnExceptionNoError(s, e) == Raise(Trigger(s, None, None), e)

\* lines 284-286: except Exception
OnException(s, e) == Raise(Trigger(s, None, e), e)

\* (mutant) the try of line 241 also covers lines 218-236
ScanErrorRecorded(s, e) == OnException(s, e)

\* an exception raised by a local middleware's entry, the parser, the decoder
\* or the filter (lines 218-236): outside the try, it leaves the stack
ScanError(s, e) == Raise(s, e)

\* the classes of the exceptions raised inside the try of line 241, as the
\* except clauses tell them apart: StopConsume, HandlerException, any other
\* Exception, and a BaseException that is no Exception (CancelledError,
\* KeyboardInterrupt)
Raised == {"StopConsume", "HandlerException", "Exception", "BaseException"}

\* lines 276-286: the except clauses, selected by the class of e; a
\* BaseException matches none of them and leaves the outer stack
Except(s, e, l) ==
    CASE e[1] = "StopConsume" -> OnStopConsume(s, l)
      [] e[1] = "HandlerException" -> OnHandlerException(s, e)
      [] e[1] = "Exception" -> OnException(s, e)
      [] OTHER -> Raise(s, e)

\* the value of self.running after the except clause selected for e
RunningAfter(e, r) == IF e[1] = "StopConsume" THEN FALSE ELSE r

\* line 222: the k-th middleware of all_middlewares for item s.i
MwAt(s, k) ==
    IF k <= middlewares THEN <<"gl", k>> ELSE <<"local", s.i, k - middlewares>>

\* (mutant) every consume-scope is given the decoder's output
ConsumeScopeEnteredUnchained(s) ==
    LET v == ScopeValue("consume", MwAt(s, s.k), DecodedBody(s.i, s.msg))
    IN  [s EXCEPT !.body = v,
                  !.chain = Append(@, <<"consume_scope", MwAt(s, s.k),
                                        DecodedBody(s.i, s.msg), v>>)]

\* lines 244-248: the k-th consume-scope is entered with message.decoded_body
\* and what it yields becomes message.decoded_body
ConsumeScopeEntered(s) ==
    LET v == ScopeValue("consume", MwAt(s, s.k), s.body)
    IN  [s EXCEPT !.body = v,
                  !.chain = Append(@, <<"consume_scope", MwAt(s, s.k), s.body, v>>)]

\* lines 265-269: the k-th publish-scope is entered with result_to_send and
\* what it yields becomes result_to_send
PublishScopeEntered(s) ==
    LET v == ScopeValue("publish", MwAt(s, s.k), s.to_send)
    IN  [s EXCEPT !.to_send = v,
                  !.pub_chain = Append(@, <<"publish_scope", MwAt(s, s.k),
                                            s.to_send, v>>)]

\* line 259: (pub_response, *h.handler._publishers)
Publishers(s) ==
    <<s.result[2]>> \o [j \in 1..calls[s.i].publishers |-> <<"static", s.i, j>>]

\* (mutant) publish is called without the correlation id
PublishCallNoCorrelation(s) == <<Publishers(s)[s.p], None>>

\* lines 271-274: publisher.publish(message=..., correlation_id=...)
PublishCall(s) == <<Publishers(s)[s.p], s.correlation_id>>

\* line 261-264: the first publish-scope of a publish, or the publish itself
StartPublish(s) ==
    IF AllMiddlewares(s) >= 1
    THEN [s EXCEPT !.pc = "publish_scope", !.k = 1, !.to_send = s.result_msg,
                   !.pub_chain = <<>>]
    ELSE [s EXCEPT !.pc = "publish", !.k = 0, !.to_send = s.result_msg,
                   !.pub_chain = <<>>]

\* lines 259-260: the loop over the publishers from index p on, skipping None
NextPublisher(s, p, r) ==
    LET ps == Publishers(s)
        cand == {q \in p..Len(ps) : ps[q] # None}
    IN  IF cand = {}
        THEN OnSuccess([s EXCEPT !.p = 0, !.k = 0], r)
        ELSE StartPublish([s EXCEPT !.p = CHOOSE q \in cand : \A q2 \in cand : q <= q2])

\* lines 255-259: the consume_stack was left without an error
AfterHandler(s, r) ==
    IF s.result # None
    THEN NextPublisher([s EXCEPT !.result_msg = s.result[1], !.k = 0], 1, r)
    ELSE OnSuccess([s EXCEPT !.k = 0], r)

\* consume_stack.__aexit__ (line 242, p = 0) or pub_stack.__aexit__ (line 261,
\* p > 0): n scopes are still to be exited while e is pending (None: no
\* error is).  Once the stack is left, a pending error reaches the except
\* clauses; otherwise the code after the `async with` runs.
LeaveStack(s, e, n, r, l) ==
    IF n > 0
    THEN [s EXCEPT !.pc = "scope_exit", !.k = n, !.pending = e]
    ELSE IF e # None
         THEN Except([s EXCEPT !.k = 0, !.p = 0, !.pending = None], e, l)
         ELSE IF s.p = 0
              THEN AfterHandler([s EXCEPT !.k = 0, !.pending = None], r)
              ELSE NextPublisher([s EXCEPT !.k = 0, !.pending = None], s.p + 1, r)

\* the value of self.running after the step that takes LeaveStack(s, e, n, ..)
RunningLeaving(e, n, r) == IF n = 0 /\ e # None THEN RunningAfter(e, r) ELSE r

\* the exit of the k-th scope of the stack being left is recorded
ScopeExited(s) ==
    IF s.p = 0
    THEN [s EXCEPT !.chain = Append(@, <<"exit_consume", MwAt(s, s.k)>>)]
    ELSE [s EXCEPT !.pub_chain = Append(@, <<"exit_publish", MwAt(s, s.k)>>)]

\* lines 242-248: the k-th consume-scope of the chain, or line 250
EnterConsumeScope(s, k) ==
    LET s1 == IF k = 1
              THEN [s EXCEPT !.chain = <<>>, !.pub_chain = <<>>, !.chain_item = s.i]
              ELSE s
    IN  IF k <= AllMiddlewares(s)
        THEN [s1 EXCEPT !.pc = "consume_scope", !.k = k]
        ELSE [s1 EXCEPT !.pc = "handler", !.k = 0]

\* (mutant) the handler is invoked whatever the filter returned
AfterFilterAlwaysInvoke(s, accepted, r) ==
    LET s1 == [s EXCEPT !.fevals = Append(@, <<s.i, s.msg_processed, accepted>>)]
    IN  IF debug /\ s1.processed
        THEN Raise(s1, Err("AssertionError", "multiple consumers", s.i))
        ELSE EnterConsumeScope(s1, 1)

\* lines 236-241: the filter returned `accepted`; the assert of lines 237-239
\* is compiled out when the interpreter runs optimized
AfterFilter(s, accepted, r) ==
    LET s1 == [s EXCEPT !.fevals = Append(@, <<s.i, s.msg_processed, accepted>>)]
    IN  IF accepted
        THEN IF debug /\ s1.processed
             THEN Raise(s1, Err("AssertionError", "multiple consumers", s.i))
             ELSE EnterConsumeScope(s1, 1)
        ELSE NextItem([s1 EXCEPT !.i = s.i + 1], r)

\* ------------------------------------------------------------------ actions

\* a step of task t: its frame becomes s2, running becomes r2; l1 is the lock
\* before the frame's exit stack (if it unwound) released it
Step(t, s2, r2, l1) ==
    LET l2 == IF ~InLock(s2) THEN MultiLockExit(l1) ELSE l1
    IN  /\ lock' = l2
        /\ running' = r2
        /\ closer' = IF closer = "join" /\ Finished(l1, l2) THEN "woken" ELSE closer
        /\ tasks' = [u \in Tasks |->
                       IF u = t THEN s2
                       ELSE IF tasks[u].pc = "close" /\ ~tasks[u].expired
                                                        /\ Finished(l1, l2)
                            THEN [tasks[u] EXCEPT !.woken = TRUE]
                            ELSE tasks[u]]
        /\ UNCHANGED <<config, elsewhere>>

\* (mutant) consume() without the running check of lines 202-203
ConsumeUnchecked(t, msg) ==
    /\ tasks[t].pc = "idle"
    /\ LET s1 == [tasks[t] EXCEPT !.msg = msg, !.was_running = running,
                                  !.stack = <<"lock", "handler_">>]
       IN  Step(t, EnterGlobal(s1, 1, running), running, MultiLockEnter(lock))

\* lines 199-213: a delivery; the running check and the lock entry
Consume(t, msg) ==
    /\ tasks[t].pc = "idle"
    /\ IF ~running
       THEN /\ tasks' = [tasks EXCEPT ![t] =
                            [@ EXCEPT !.pc = "done", !.msg = msg,
                                      !.ret = <<"return", None>>]]
            /\ UNCHANGED <<running, lock, closer, config, elsewhere>>
       ELSE LET s1 == [tasks[t] EXCEPT !.msg = msg, !.was_running = TRUE,
                                       !.stack = <<"lock", "handler_">>]
            IN  Step(t, EnterGlobal(s1, 1, running), running, MultiLockEnter(lock))

\* line 212: a global middleware's __aenter__ completes
EnterGlobalMiddleware(t) ==
    LET s == tasks[t] IN
    /\ s.pc = "gl_mw"
    /\ \E ok \in BOOLEAN :
         Step(t, IF ok
                 THEN EnterGlobal(EnterContext(s, <<"gl", s.k>>), s.k + 1, running)
                 ELSE Raise(s, Err("Exception", "middleware", s.i)),
              running, lock)

\* line 219: a local middleware's __aenter__ completes
EnterLocalMiddleware(t) ==
    LET s == tasks[t] IN
    /\ s.pc = "local_mw"
    /\ \E ok \in BOOLEAN :
         Step(t, IF ok
                 THEN EnterLocal(EnterContext(s, <<"local", s.i, s.k>>), s.k + 1)
                 ELSE ScanError(s, Err("Exception", "middleware", s.i)),
              running, lock)

\* lines 225-231: h.parser(msg) completes
Parser(t) ==
    LET s == tasks[t] IN
    /\ s.pc = "parser"
    /\ \E ok \in BOOLEAN :
         Step(t, IF ok
                 THEN [s EXCEPT !.pc = "decoder",
                                !.correlation_id = CorrelationId(s.msg),
                                !.parsed = Append(@, s.i),
                                !.log_context_tag = <<s.log_context>>,
                                !.log_context = LogContext(s.i, s.msg),
                                !.log_sets = Append(@, LogContext(s.i, s.msg))]
                 ELSE ScanError(s, Err("Exception", "parser", s.i)),
              running, lock)

\* (mutant) line 234 is missing: the envelope keeps a false processed flag
DecoderUnflagged(t) ==
    LET s == tasks[t] IN
    /\ s.pc = "decoder"
    /\ \E ok \in BOOLEAN :
         Step(t, IF ok
                 THEN [s EXCEPT !.pc = "filter", !.msg_processed = FALSE,
                                !.body = DecodedBody(s.i, s.msg)]
                 ELSE ScanError(s, Err("Exception", "decoder", s.i)),
              running, lock)

\* lines 233-234: h.decoder(message) completes
Decoder(t) ==
    LET s == tasks[t] IN
    /\ s.pc = "decoder"
    /\ \E ok \in BOOLEAN :
         Step(t, IF ok
                 THEN [s EXCEPT !.pc = "filter", !.msg_processed = s.processed,
                                !.body = DecodedBody(s.i, s.msg)]
                 ELSE ScanError(s, Err("Exception", "decoder", s.i)),
              running, lock)

\* line 236: h.filter(message) completes
Filter(t) ==
    LET s == tasks[t] IN
    /\ s.pc = "filter"
    /\ \E res \in {"true", "false", "raise"} :
         Step(t, IF res = "raise"
                 THEN ScanError(s, Err("Exception", "filter", s.i))
                 ELSE AfterFilter(s, res = "true", running),
              running, lock)

\* lines 243-248: a consume_scope's __aenter__ completes; if it raises, the
\* consume_stack is left with the consume-scopes entered before it
ConsumeScope(t) ==
    LET s == tasks[t] IN
    /\ s.pc = "consume_scope"
    /\ \E o \in {"ok"} \cup Raised :
         LET e == Err(o, "consume_scope", s.i) IN
         IF o = "ok"
         THEN Step(t, EnterConsumeScope(ConsumeScopeEntered(s), s.k + 1), running, lock)
         ELSE Step(t, LeaveStack(s, e, s.k - 1, running, lock),
                   RunningLeaving(e, s.k - 1, running), lock)

\* what h.handler.call_wrapped(message) returns: None, or the pair of the
\* handler's value and the inline response target, either of which may be None
HandlerReturns == {"result", "result+reply", "none", "none-tuple", "none+reply"}

HandlerOutcomes == HandlerReturns \cup Raised

\* the value of `result` for a returning outcome o of item i
HandlerResult(o, i, msg) ==
    CASE o = "result" -> <<HandlerOutput(i, msg), None>>
      [] o = "result+reply" -> <<HandlerOutput(i, msg), <<"reply">>>>
      [] o = "none-tuple" -> <<None, None>>
      [] o = "none+reply" -> <<None, <<"reply">>>>
      [] OTHER -> None

\* lines 250-253: h.handler.call_wrapped(message) completes; a returned value
\* is assigned to `result`, and the consume_stack of line 242 is left
Handler(t) ==
    /\ tasks[t].pc = "handler"
    /\ \E o \in HandlerOutcomes :
         LET s0 == tasks[t]
             s == [s0 EXCEPT !.invoked = Append(@, [h |-> s0.i, o |-> o]),
                             !.chain = Append(@, <<"handler", s0.i, s0.body>>)]
             e == IF o \in Raised THEN Err(o, "handler", s.i) ELSE None
             s1 == IF e = None
                   THEN [s EXCEPT !.result = HandlerResult(o, s.i, s.msg)]
                   ELSE s
             n == AllMiddlewares(s0)
         IN  Step(t, LeaveStack(s1, e, n, running, lock),
                  RunningLeaving(e, n, running), lock)

\* lines 264-269: a publish_scope's __aenter__ completes; if it raises, the
\* pub_stack is left with the publish-scopes entered before it
PublishScope(t) ==
    LET s == tasks[t] IN
    /\ s.pc = "publish_scope"
    /\ \E o \in {"ok"} \cup Raised :
         LET e == Err(o, "publish_scope", s.i) IN
         IF o = "ok"
         THEN Step(t, IF s.k < AllMiddlewares(s)
                      THEN [PublishScopeEntered(s) EXCEPT !.k = s.k + 1]
                      ELSE [PublishScopeEntered(s) EXCEPT !.pc = "publish", !.k = 0],
                   running, lock)
         ELSE Step(t, LeaveStack(s, e, s.k - 1, running, lock),
                   RunningLeaving(e, s.k - 1, running), lock)

\* (mutant) a failing publish is skipped and the next publisher is tried
PublishSuppressing(t) ==
    LET s0 == tasks[t]
        s == [s0 EXCEPT !.pub_chain = Append(@, <<"publish", Publishers(s0)[s0.p],
                                                 s0.to_send>>)]
        n == AllMiddlewares(s0)
    IN
    /\ s0.pc = "publish"
    /\ \E o \in {"ok"} \cup Raised :
         Step(t, LeaveStack(IF o = "ok"
                            THEN [s EXCEPT !.published = Append(@, PublishCall(s)),
                                          !.published_by = Append(@, s.i)]
                            ELSE s,
                            None, n, running, lock),
              running, lock)

\* lines 271-274: publisher.publish(...) completes, and the pub_stack of
\* line 261 is left
Publish(t) ==
    LET s0 == tasks[t]
        s == [s0 EXCEPT !.pub_chain = Append(@, <<"publish", Publishers(s0)[s0.p],
                                                 s0.to_send>>)]
        n == AllMiddlewares(s0)
    IN
    /\ s0.pc = "publish"
    /\ \E o \in {"ok"} \cup Raised :
         LET e == IF o = "ok" THEN None ELSE Err(o, "publish", s.i) IN
         Step(t, LeaveStack(IF o = "ok"
                            THEN [s EXCEPT !.published = Append(@, PublishCall(s)),
                                          !.published_by = Append(@, s.i)]
                            ELSE s,
                            e, n, running, lock),
              RunningLeaving(e, n, running), lock)

\* consume_stack.__aexit__ / pub_stack.__aexit__: the innermost scope still
\* entered is exited; its __aexit__ completes and returns a false value
ScopeExit(t) ==
    LET s == tasks[t] IN
    /\ s.pc = "scope_exit"
    /\ Step(t, LeaveStack(ScopeExited(s), s.pending, s.k - 1, running, lock),
            RunningLeaving(s.pending, s.k - 1, running), lock)

\* consume_stack.__aexit__ / pub_stack.__aexit__: the innermost scope's
\* __aexit__ raises, and its error becomes the pending one, or returns a true
\* value, and the pending error is dropped; the stack goes on unwinding
ScopeExitOutcome(t) ==
    LET s == tasks[t] IN
    /\ s.pc = "scope_exit"
    /\ s.faults < MaxExitFaults
    /\ \E o \in {"suppress"} \cup Raised :
         LET e == IF o = "suppress" THEN None ELSE Err(o, "scope_exit", s.i) IN
         /\ o = "suppress" => s.pending # None
         /\ Step(t, LeaveStack([ScopeExited(s) EXCEPT !.faults = @ + 1],
                               e, s.k - 1, running, lock),
                 RunningLeaving(e, s.k - 1, running), lock)

\* line 385: the deadline of anyio.move_on_after(timeout) passes while the
\* close() awaited by the StopConsume clause is suspended in queue.join()
TaskTimeout(t) ==
    LET s == tasks[t] IN
    /\ s.pc = "close"
    /\ ~s.woken /\ ~s.expired
    /\ Step(t, [s EXCEPT !.expired = TRUE], running, lock)

\* (mutant) the close() of line 277 returns without waiting for anything
CloseReturnAtOnce(t) ==
    LET s == tasks[t] IN
    /\ s.pc = "close"
    /\ Step(t, AfterClose(s, running), running, lock)

\* line 277: the close() awaited by the StopConsume clause returns, because
\* queue.join() was resumed or because move_on_after(timeout) expired
CloseReturn(t) ==
    LET s == tasks[t] IN
    /\ s.pc = "close"
    /\ s.woken \/ s.expired
    /\ Step(t, AfterClose(s, running), running, lock)

\* AsyncExitStack.__aexit__: the innermost middleware's __aexit__ completes
\* and returns a false value
ExitScope(t) ==
    LET s == tasks[t] IN
    /\ s.pc = "exit"
    /\ Step(t, ExitStack(PopContext(s)), running, lock)

\* AsyncExitStack.__aexit__: the innermost middleware's __aexit__ raises, and
\* its error becomes the pending one, or returns a true value, and the
\* pending error is dropped; either way the stack goes on unwinding
ExitScopeOutcome(t) ==
    LET s == tasks[t] IN
    /\ s.pc = "exit"
    /\ s.faults < MaxExitFaults
    /\ \E o \in {"raise", "suppress"} :
         /\ o = "suppress" => s.exc # None
         /\ Step(t, ExitStack([PopContext(s) EXCEPT
                        !.faults = @ + 1,
                        !.exc = IF o = "raise" THEN Err("Exception", "exit", s.i)
                                ELSE None]),
                 running, lock)

\* the caller of consume() takes the result; the task is free for a new delivery
Return(t) ==
    /\ tasks[t].pc = "done"
    /\ tasks' = [tasks EXCEPT ![t] = IdleTask]
    /\ UNCHANGED <<running, lock, closer, config, elsewhere>>

\* the middleware factories registered so far, globally and on the items
RECURSIVE SumOf(_, _)
SumOf(seq, field) ==
    IF seq = <<>> THEN 0 ELSE Head(seq)[field] + SumOf(Tail(seq), field)

\* BaseHandler.add_call(...)(func): append a HandlerItem (lines 165-174) with
\* n_middlewares local middleware factories, whose handler has n_publishers
\* statically bound publishers.  Nothing in add_call depends on the running
\* flag or on the deliveries in progress: a consume() call suspended in its
\* loop over self.calls goes on to an item appended meanwhile.
AddCall(n_middlewares, n_publishers) ==
    /\ Len(calls) < MaxCalls
    /\ middlewares + SumOf(calls, "middlewares") + n_middlewares <= MaxMiddlewares
    /\ SumOf(calls, "publishers") + n_publishers <= MaxPublishers
    /\ (Len(calls) + 1) + (middlewares + SumOf(calls, "middlewares") + n_middlewares)
         + (SumOf(calls, "publishers") + n_publishers) <= MaxSize
    /\ calls' = Append(calls, [middlewares |-> n_middlewares,
                               publishers |-> n_publishers])
    /\ UNCHANGED elsewhere
    /\ UNCHANGED <<running, middlewares, graceful_timeout, lock, IS_OPTIMIZED, debug,
                   tasks, closer>>

\* BaseHandler.start (line 304); on a running dispatcher it changes nothing
Start ==
    /\ ~running
    /\ running' = TRUE
    /\ UNCHANGED elsewhere
    /\ UNCHANGED <<calls, middlewares, graceful_timeout, lock, IS_OPTIMIZED, debug,
                   tasks, closer>>

\* BaseHandler.close called by the application (lines 312-313)
Close ==
    /\ closer = "idle"
    /\ running' = FALSE
    /\ closer' = IF WaitReleaseBlocks(graceful_timeout, lock) THEN "join" ELSE "idle"
    /\ UNCHANGED elsewhere
    /\ UNCHANGED <<calls, middlewares, graceful_timeout, lock, IS_OPTIMIZED, debug, tasks>>

\* (mutant) wait_release awaits queue.join() outside any move_on_after
TimeoutNever ==
    /\ closer = "join"
    /\ FALSE
    /\ UNCHANGED vars

\* line 385: the deadline of anyio.move_on_after(timeout) passes while the
\* application's close() is suspended in queue.join(); the scope cancels the
\* join
Timeout ==
    /\ closer = "join"
    /\ closer' = "expired"
    /\ UNCHANGED elsewhere
    /\ UNCHANGED <<running, calls, middlewares, graceful_timeout, lock,
                   IS_OPTIMIZED, debug, tasks>>

\* MultiLock.wait_release returns to the application's close(): queue.join()
\* was resumed, or the cancellation of move_on_after was delivered and caught
CloseDone ==
    /\ closer \in {"woken", "expired"}
    /\ closer' = "idle"
    /\ UNCHANGED elsewhere
    /\ UNCHANGED <<running, calls, middlewares, graceful_timeout, lock,
                   IS_OPTIMIZED, debug, tasks>>

\* ------------------------------------------------- direct users of MultiLock

\* no client has entered the lock
ClientInit == [t \in Tasks |-> [held |-> 0, last |-> None]]

\* client t executes `with lock:` up to its body (MultiLock.__enter__)
LockEnter(t) ==
    /\ client[t].held < MaxHeld
    /\ lock' = MultiLockEnter(lock)
    /\ client' = [client EXCEPT ![t] =
                     [held |-> @.held + 1, last |-> <<"enter", lock.qsize, None>>]]
    /\ UNCHANGED <<running, calls, middlewares, graceful_timeout, IS_OPTIMIZED, debug,
                   tasks, closer, watcher, app, declarer>>

\* client t calls MultiLock.__exit__: at the end of a `with lock:` body, or
\* once more than it entered
LockExit(t) ==
    /\ lock' = MultiLockExit(lock)
    /\ client' = [client EXCEPT ![t] =
                     [held |-> IF @.held > 0 THEN @.held - 1 ELSE 0,
                      last |-> <<"exit", lock.qsize, ExitRaises(lock)>>]]
    /\ UNCHANGED <<running, calls, middlewares, graceful_timeout, IS_OPTIMIZED, debug,
                   tasks, closer, watcher, app, declarer>>

\* the components outside the dispatcher, before anything used them
ElsewhereInit ==
    /\ client = ClientInit
    /\ watcher = None
    /\ app = None
    /\ declarer = None

\* a MultiLock shared by two clients
InitLock ==
    /\ running = FALSE
    /\ calls = <<>>
    /\ middlewares = 0
    /\ graceful_timeout = None
    /\ lock = MultiLockInit
    /\ IS_OPTIMIZED = FALSE
    /\ debug = TRUE
    /\ tasks = [t \in Tasks |-> IdleTask]
    /\ closer = "idle"
    /\ ElsewhereInit

NextLock == \E t \in Tasks : LockEnter(t) \/ LockExit(t)

SpecLock == InitLock /\ [][NextLock]_vars

\* ----------------------------------------------------------------- watchers

\* message identities
MsgIds == {"a", "b"}

\* Python values of type Union[bool, int]: the singletons True and False,
\* and the integers
TryNumbers == {<<"bool", TRUE>>, <<"bool", FALSE>>} \cup {<<"int", n>> : n \in 0..MaxTries}

\* the integer value of a bool or int (bool is a subclass of int)
PyInt(v) == IF v[1] = "bool" THEN (IF v[2] THEN 1 ELSE 0) ELSE v[2]

\* Python's ==
PyEq(a, b) == PyInt(a) = PyInt(b)

\* Python's `is`, for True and False: the very object
PyIs(a, b) == a = b

\* the policies of faststream.broker.push_back_watcher
EndlessWatcher == [kind |-> "EndlessWatcher", max_tries |-> None,
                   memory |-> [id \in MsgIds |-> 0]]

OneTryWatcher == [kind |-> "OneTryWatcher", max_tries |-> None,
                  memory |-> [id \in MsgIds |-> 0]]

CounterWatcher(max_tries) ==
    [kind |-> "CounterWatcher", max_tries |-> <<max_tries>>,
     memory |-> [id \in MsgIds |-> 0]]

\* (mutant) the attempt that reaches max_tries is still retried
WatcherFailureLate(w, id) ==
    CASE w.kind = "EndlessWatcher" -> <<w, "retry">>
      [] w.kind = "OneTryWatcher" -> <<w, "terminal">>
      [] OTHER ->
           LET n == w.memory[id] + 1 IN
           <<[w EXCEPT !.memory[id] = n],
             IF n <= w.max_tries[1] THEN "retry" ELSE "terminal">>

\* a failure outcome for message identity id: the watcher after it, and its
\* decision
WatcherFailure(w, id) ==
    CASE w.kind = "EndlessWatcher" -> <<w, "retry">>
      [] w.kind = "OneTryWatcher" -> <<w, "terminal">>
      [] OTHER ->
           LET n == w.memory[id] + 1 IN
           <<[w EXCEPT !.memory[id] = n],
             IF n < w.max_tries[1] THEN "retry" ELSE "terminal">>

\* a success outcome for message identity id
WatcherSuccess(w, id) ==
    IF w.kind = "CounterWatcher" THEN [w EXCEPT !.memory[id] = 0] ELSE w

\* line 40: try_number: Union[bool, int] = True
DefaultTryNumber == <<"bool", TRUE>>

\* (mutant) get_watcher compares with == instead of `is`
GetWatcherEq(try_number) ==
    IF PyEq(try_number, <<"bool", TRUE>>) THEN EndlessWatcher
    ELSE IF PyEq(try_number, <<"bool", FALSE>>) THEN OneTryWatcher
    ELSE CounterWatcher(PyInt(try_number))

\* get_watcher, lines 56-62
GetWatcher(try_number) ==
    IF PyIs(try_number, <<"bool", TRUE>>) THEN EndlessWatcher
    ELSE IF PyIs(try_number, <<"bool", FALSE>>) THEN OneTryWatcher
    ELSE CounterWatcher(PyInt(try_number))

\* get_watcher(logger) or get_watcher(logger, try_number)
CallGetWatcher(args) ==
    /\ watcher = None
    /\ watcher' = [obj |-> GetWatcher(IF args = None THEN DefaultTryNumber
                                                     ELSE args[1]),
                   args |-> args, last |-> None]
    /\ UNCHANGED <<running, calls, middlewares, graceful_timeout, lock,
                   IS_OPTIMIZED, debug, tasks, closer, client, app, declarer>>

\* the transport reports a failed attempt for message identity id
Failure(id) ==
    /\ watcher # None
    /\ watcher.obj.memory[id] <= MaxTries
    /\ LET r == WatcherFailure(watcher.obj, id) IN
         watcher' = [watcher EXCEPT !.obj = r[1], !.last = <<"failure", id, r[2]>>]
    /\ UNCHANGED <<running, calls, middlewares, graceful_timeout, lock,
                   IS_OPTIMIZED, debug, tasks, closer, client, app, declarer>>

\* the transport reports a successful attempt for message identity id
Success(id) ==
    /\ watcher # None
    /\ watcher' = [watcher EXCEPT !.obj = WatcherSuccess(watcher.obj, id),
                                  !.last = <<"success", id, None>>]
    /\ UNCHANGED <<running, calls, middlewares, graceful_timeout, lock,
                   IS_OPTIMIZED, debug, tasks, closer, client, app, declarer>>

\* no watcher made yet
InitWatcher ==
    /\ running = FALSE
    /\ calls = <<>>
    /\ middlewares = 0
    /\ graceful_timeout = None
    /\ lock = MultiLockInit
    /\ IS_OPTIMIZED = FALSE
    /\ debug = TRUE
    /\ tasks = [t \in Tasks |-> IdleTask]
    /\ closer = "idle"
    /\ ElsewhereInit

NextWatcher ==
    \/ \E args \in {None} \cup {<<n>> : n \in TryNumbers} : CallGetWatcher(args)
    \/ \E id \in MsgIds : Failure(id) \/ Success(id)

SpecWatcher == InitWatcher /\ [][NextWatcher]_vars

\* -------------------------------------------------------------- application

\* hook functions
Hooks == {"f", "g"}

\* cli/supervisors/utils.py, lines 16-19
HANDLED_SIGNALS == {"SIGINT", "SIGTERM"}

\* the signals a process may be sent; SIGHUP is not handled
Signals == HANDLED_SIGNALS \cup {"SIGHUP"}

\* FastStream.__init__: the four hook lists are empty.  `run` is the state of
\* the run() call, `start` the position of the _start task and `stop` that of
\* the host task in _stop; `pending` counts the signals queued in the
\* receiver, `sent` the handled signals sent to the process during the run()
\* call, `log` what the application called and what completed, `mark` the
\* length of the log when run() was called last; `runs` and `sets` count the
\* calls of run() and of set_broker(), `ops` these, the registrations and the
\* signals; `cancel_called` tells whether the cancel scope of the task group
\* of the run() call has been cancelled.
NewApp(broker) ==
    [broker |-> broker,
     on_startup |-> <<>>, after_startup |-> <<>>,
     on_shutdown |-> <<>>, after_shutdown |-> <<>>,
     run |-> "new", start |-> <<"none">>, stop |-> <<"none">>,
     pending |-> 0, sent |-> 0, log |-> <<>>, mark |-> 0,
     runs |-> 0, sets |-> 0, ops |-> 0, cancel_called |-> FALSE]

Log(a, e) == [a EXCEPT !.log = Append(@, e)]

\* `await func()` of the k-th hook of a list suspends the coroutine `who`
CallHook(a, who, list, k) ==
    [Log(a, <<"call", list, k, a[list][k]>>) EXCEPT ![who] = <<"hook", list, k>>]

\* An awaited call (a hook, broker.start(), broker.close()) suspends the
\* coroutine that awaits it only if it suspends itself; a hook that is a plain
\* function wrapped by to_async, or a coroutine function that awaits nothing
\* pending, returns or raises within the same resumption, and the coroutine
\* runs on to its next await.  A resumption is described by the number n of
\* awaited calls that return without suspending and by what the call after
\* them does: it suspends the coroutine, or it raises without suspending.
AwaitEnds == {"suspend", "raise"}

\* a sequence awaits the hooks of its two lists and one broker operation
AwaitsThrough(a, before, after) == 0..(Len(a[before]) + Len(a[after]) + 1)

\* a coroutine that was started and has neither returned, raised nor been
\* cancelled
Unfinished(pc) == pc[1] \in {"scheduled", "signals", "hook", "broker.start",
                             "broker.close"}

\* a coroutine suspended at an await of _stop, _startup or _shutdown
Suspended(pc) == pc[1] \in {"signals", "hook", "broker.start", "broker.close"}

\* a coroutine that returned, raised or was cancelled
Ended(pc) == pc[1] \in {"done", "raised", "cancelled"}

\* the task group's cancel scope is cancelled: the host left _stop (line 228,
\* or the error of _stop reaching the group's __aexit__), or the group has
\* been told by the event loop that the _start task ended with an error
CancelRequested(a) == a.cancel_called

\* lines 225-231: the task group's __aexit__ ends with both coroutines
\* ended; run() raises the error of either of them, or returns
RunExited(a) ==
    [a EXCEPT !.run = IF a.start = <<"raised">> \/ a.stop = <<"raised">>
                      THEN "raised" ELSE "returned"]

\* lines 225-226: an error leaves the _start task; the task group learns of
\* it, and cancels its scope, in a later callback of the event loop
StartRaised(a) == [a EXCEPT !.start = <<"raised">>]

\* lines 286-287: the after_startup hooks from the k-th on
RECURSIVE BeginAfterStartup(_, _, _, _)
BeginAfterStartup(a, k, n, end) ==
    IF k > Len(a.after_startup) THEN [a EXCEPT !.start = <<"done">>]
    ELSE LET e == <<"after_startup", k, a.after_startup[k]>>
             a1 == CallHook(a, "start", "after_startup", k)
         IN  IF n > 0
             THEN BeginAfterStartup(Log(a1, <<"done">> \o e), k + 1, n - 1, end)
             ELSE IF end = "raise" THEN StartRaised(Log(a1, <<"raise">> \o e))
             ELSE a1

\* lines 283-284
BeginBrokerStart(a, n, end) ==
    IF ~a.broker THEN BeginAfterStartup(a, 1, n, end)
    ELSE LET a1 == [Log(a, <<"call", "broker.start">>)
                       EXCEPT !.start = <<"broker.start">>]
         IN  IF n > 0
             THEN BeginAfterStartup(Log(a1, <<"done", "broker.start">>), 1,
                                    n - 1, end)
             ELSE IF end = "raise"
             THEN StartRaised(Log(a1, <<"raise", "broker.start">>))
             ELSE a1

\* lines 280-281: the on_startup hooks from the k-th on
RECURSIVE BeginOnStartup(_, _, _, _)
BeginOnStartup(a, k, n, end) ==
    IF k > Len(a.on_startup) THEN BeginBrokerStart(a, n, end)
    ELSE LET e == <<"on_startup", k, a.on_startup[k]>>
             a1 == CallHook(a, "start", "on_startup", k)
         IN  IF n > 0
             THEN BeginOnStartup(Log(a1, <<"done">> \o e), k + 1, n - 1, end)
             ELSE IF end = "raise" THEN StartRaised(Log(a1, <<"raise">> \o e))
             ELSE a1

\* (mutant) _startup goes on after a hook or broker.start() raised
StartupAwaitedSwallowing(a, ok, n, end) ==
    LET pc == a.start IN
    IF pc = <<"broker.start">>
    THEN BeginAfterStartup(
            Log(a, <<IF ok THEN "done" ELSE "raise", "broker.start">>), 1, n, end)
    ELSE LET a1 == Log(a, <<IF ok THEN "done" ELSE "raise", pc[2], pc[3],
                            a[pc[2]][pc[3]]>>)
         IN  IF pc[2] = "on_startup" THEN BeginOnStartup(a1, pc[3] + 1, n, end)
                                     ELSE BeginAfterStartup(a1, pc[3] + 1, n, end)

\* lines 280-287: the await _startup is suspended at completes, and _startup
\* runs on to the next call that suspends it
StartupAwaited(a, ok, n, end) ==
    LET pc == a.start IN
    IF pc = <<"broker.start">>
    THEN IF ok THEN BeginAfterStartup(Log(a, <<"done", "broker.start">>), 1,
                                      n, end)
               ELSE StartRaised(Log(a, <<"raise", "broker.start">>))
    ELSE LET e == <<pc[2], pc[3], a[pc[2]][pc[3]]>> IN
         IF ~ok THEN StartRaised(Log(a, <<"raise">> \o e))
         ELSE IF pc[2] = "on_startup"
              THEN BeginOnStartup(Log(a, <<"done">> \o e), pc[3] + 1, n, end)
              ELSE BeginAfterStartup(Log(a, <<"done">> \o e), pc[3] + 1, n, end)

\* (mutant) _stop has no `return`: it waits for the next signal
StopReturnedLoops(a) == [a EXCEPT !.stop = <<"signals">>]

\* lines 268-269 and 228: _stop returns and run() cancels the task group's
\* scope
StopReturned(a) == [a EXCEPT !.stop = <<"done">>, !.cancel_called = TRUE]

\* an error leaves _stop and reaches the task group's __aexit__, which cancels
\* the scope
StopRaised(a) == [a EXCEPT !.stop = <<"raised">>, !.cancel_called = TRUE]

\* lines 301-302: the after_shutdown hooks from the k-th on
RECURSIVE BeginAfterShutdown(_, _, _, _)
BeginAfterShutdown(a, k, n, end) ==
    IF k > Len(a.after_shutdown) THEN StopReturned(a)
    ELSE LET e == <<"after_shutdown", k, a.after_shutdown[k]>>
             a1 == CallHook(a, "stop", "after_shutdown", k)
         IN  IF n > 0
             THEN BeginAfterShutdown(Log(a1, <<"done">> \o e), k + 1, n - 1, end)
             ELSE IF end = "raise" THEN StopRaised(Log(a1, <<"raise">> \o e))
             ELSE a1

\* lines 298-299
BeginBrokerClose(a, n, end) ==
    IF ~a.broker THEN BeginAfterShutdown(a, 1, n, end)
    ELSE LET a1 == [Log(a, <<"call", "broker.close">>)
                       EXCEPT !.stop = <<"broker.close">>]
         IN  IF n > 0
             THEN BeginAfterShutdown(Log(a1, <<"done", "broker.close">>), 1,
                                     n - 1, end)
             ELSE IF end = "raise"
             THEN StopRaised(Log(a1, <<"raise", "broker.close">>))
             ELSE a1

\* lines 295-296: the on_shutdown hooks from the k-th on
RECURSIVE BeginOnShutdown(_, _, _, _)
BeginOnShutdown(a, k, n, end) ==
    IF k > Len(a.on_shutdown) THEN BeginBrokerClose(a, n, end)
    ELSE LET e == <<"on_shutdown", k, a.on_shutdown[k]>>
             a1 == CallHook(a, "stop", "on_shutdown", k)
         IN  IF n > 0
             THEN BeginOnShutdown(Log(a1, <<"done">> \o e), k + 1, n - 1, end)
             ELSE IF end = "raise" THEN StopRaised(Log(a1, <<"raise">> \o e))
             ELSE a1

\* lines 295-302: the await _shutdown is suspended at completes, and
\* _shutdown runs on to the next call that suspends it
ShutdownAwaited(a, ok, n, end) ==
    LET pc == a.stop IN
    IF pc = <<"broker.close">>
    THEN IF ok THEN BeginAfterShutdown(Log(a, <<"done", "broker.close">>), 1,
                                       n, end)
               ELSE StopRaised(Log(a, <<"raise", "broker.close">>))
    ELSE LET e == <<pc[2], pc[3], a[pc[2]][pc[3]]>> IN
         IF ~ok THEN StopRaised(Log(a, <<"raise">> \o e))
         ELSE IF pc[2] = "on_shutdown"
              THEN BeginOnShutdown(Log(a, <<"done">> \o e), pc[3] + 1, n, end)
              ELSE BeginAfterShutdown(Log(a, <<"done">> \o e), pc[3] + 1, n, end)

\* lines 225-231: the host task has run a step.  If it is out of _stop and the
\* _start task has ended, the task group's __aexit__ has nothing to wait for
\* and run() ends within the same resumption of the host task (exits), unless
\* the group has yet to be told of the end of the _start task by the event
\* loop; then the host task suspends in __aexit__ and run() ends a step later.
HostStepped(a, exits) ==
    IF exits /\ Ended(a.stop) /\ Ended(a.start) THEN RunExited(a) ELSE a

\* whether run() may end within a step of the host task that begins in state
\* a: not while the _start task has raised and the group has yet to be told
HostExits(a) == {e \in BOOLEAN : e => (a.start = <<"raised">> => a.cancel_called)}

HookLists == {"on_startup", "after_startup", "on_shutdown", "after_shutdown"}

\* an application step leaves the dispatcher, the lock clients and the
\* watcher alone
AppStep(a) ==
    /\ app' = a
    /\ UNCHANGED <<running, calls, middlewares, graceful_timeout, lock,
                   IS_OPTIMIZED, debug, tasks, closer, client, watcher, declarer>>

\* lines 145-205: app.on_startup(f), app.after_startup(f), app.on_shutdown(f),
\* app.after_shutdown(f) append to the list, whether or not run() was called;
\* _startup and _shutdown iterate over the lists themselves, so a hook
\* appended before the loop ends is called by it
Register(list, f) ==
    /\ app.run # "killed"
    /\ app.ops < MaxOps
    /\ Len(app.on_startup) + Len(app.after_startup)
          + Len(app.on_shutdown) + Len(app.after_shutdown) < MaxHooks
    /\ AppStep([app EXCEPT ![list] = Append(@, f), !.ops = @ + 1])

\* lines 138-143: app.set_broker(broker); None is a legal argument
SetBroker(broker) ==
    /\ app.run # "killed"
    /\ app.ops < MaxOps
    /\ app.sets < MaxSets
    /\ AppStep([app EXCEPT !.broker = broker, !.sets = @ + 1, !.ops = @ + 1])

\* lines 221-227: run() is called, for the first time or after an earlier
\* call has ended.  With assert statements executed, the assertion of line
\* 221 fails without a broker.  Otherwise the _start task is created and the
\* host task suspends in _stop, waiting for a signal on a new receiver; the
\* _start task has not run yet.
Run ==
    /\ app.run \in {"new", "returned", "raised"}
    /\ app.ops < MaxOps
    /\ app.runs < MaxRuns
    /\ LET a == [app EXCEPT !.runs = @ + 1, !.ops = @ + 1, !.mark = Len(app.log),
                            !.pending = 0, !.sent = 0,
                            !.cancel_called = FALSE]
       IN  AppStep(IF debug /\ ~app.broker
                   THEN [a EXCEPT !.run = "raised", !.start = <<"none">>,
                                  !.stop = <<"none">>]
                   ELSE [a EXCEPT !.run = "running", !.start = <<"scheduled">>,
                                  !.stop = <<"signals">>])

\* lines 233-248 and 280: the event loop runs the _start task for the first
\* time, up to the first awaited call that suspends it
StartBegin ==
    /\ app.run = "running"
    /\ app.start = <<"scheduled">>
    /\ \E n \in AwaitsThrough(app, "on_startup", "after_startup"),
          end \in AwaitEnds :
          AppStep(BeginOnStartup(app, 1, n, end))

\* line 264: the process is sent a signal while the receiver of _stop is
\* open; a handled one is queued in the receiver, another one ends the process
Signal(sig) ==
    /\ app.run = "running"
    /\ Unfinished(app.stop)
    /\ app.ops < MaxOps
    /\ app.sent < MaxSignals
    /\ AppStep(IF sig \in HANDLED_SIGNALS
               THEN [app EXCEPT !.pending = @ + 1, !.sent = @ + 1, !.ops = @ + 1]
               ELSE [app EXCEPT !.run = "killed", !.ops = @ + 1,
                                !.start = <<"killed">>, !.stop = <<"killed">>])

\* lines 265-267: the receiver yields a signal and _stop calls _shutdown,
\* which runs up to the first awaited call that suspends it; the _start task,
\* created before the host suspended, has run by then.  A cancellation of the
\* scope is delivered to a coroutine whose await is still pending: a host
\* task resumed by the signal before that runs on.
ReceiveSignal ==
    /\ app.run = "running"
    /\ app.stop = <<"signals">>
    /\ app.start # <<"scheduled">>
    /\ app.pending > 0
    /\ \E n \in AwaitsThrough(app, "on_shutdown", "after_shutdown"),
          end \in AwaitEnds, exits \in HostExits(app) :
          AppStep(HostStepped(
                    BeginOnShutdown(
                      [Log(app, <<"call", "_shutdown">>) EXCEPT !.pending = @ - 1],
                      1, n, end),
                    exits))

\* a hook or broker.start(), awaited by _startup, returns or raises, and the
\* _start task runs up to the next awaited call that suspends it; also when
\* the scope was cancelled after the awaited call completed
StartupStep ==
    /\ app.run = "running"
    /\ app.start[1] \in {"hook", "broker.start"}
    /\ \E ok \in BOOLEAN, n \in AwaitsThrough(app, "on_startup", "after_startup"),
          end \in AwaitEnds :
          AppStep(StartupAwaited(app, ok, n, end))

\* a hook or broker.close(), awaited by _shutdown, returns or raises, and the
\* host task runs up to the next awaited call that suspends it, likewise
ShutdownStep ==
    /\ app.run = "running"
    /\ app.stop[1] \in {"hook", "broker.close"}
    /\ \E ok \in BOOLEAN, n \in AwaitsThrough(app, "on_shutdown", "after_shutdown"),
          end \in AwaitEnds, exits \in HostExits(app) :
          AppStep(HostStepped(ShutdownAwaited(app, ok, n, end), exits))

\* lines 225-226: the event loop runs the completion callback of the _start
\* task, which ended with an error: the task group cancels its scope.  Other
\* callbacks, a resumption of the host task among them, may run before it.
StartTaskDone ==
    /\ app.run = "running"
    /\ app.start = <<"raised">>
    /\ ~app.cancel_called
    /\ AppStep([app EXCEPT !.cancel_called = TRUE])

\* lines 225-231: the host task, suspended in _stop at an await that is still
\* pending, is resumed with the cancellation the failed _start task caused
\* and leaves _stop
HostCancelled ==
    /\ app.run = "running"
    /\ CancelRequested(app)
    /\ Suspended(app.stop)
    /\ \E exits \in HostExits(app) :
          AppStep(HostStepped([app EXCEPT !.stop = <<"cancelled">>], exits))

\* line 228: the _start task, suspended at an await that is still pending, is
\* resumed with the cancellation of the scope and ends; the host task still
\* waits in the task group's __aexit__
StartCancelled ==
    /\ app.run = "running"
    /\ CancelRequested(app)
    /\ Suspended(app.start)
    /\ AppStep([app EXCEPT !.start = <<"cancelled">>])

\* lines 225-231: the host task, waiting in the task group's __aexit__, is
\* resumed once the _start task has ended, and run() returns or raises
RunExit ==
    /\ app.run = "running"
    /\ Ended(app.stop)
    /\ Ended(app.start)
    /\ AppStep(RunExited(app))

\* FastStream(broker) or FastStream()
InitApp ==
    /\ running = FALSE
    /\ calls = <<>>
    /\ middlewares = 0
    /\ graceful_timeout = None
    /\ lock = MultiLockInit
    /\ IS_OPTIMIZED = FALSE
    /\ debug \in BOOLEAN
    /\ tasks = [t \in Tasks |-> IdleTask]
    /\ closer = "idle"
    /\ client = ClientInit
    /\ watcher = None
    /\ declarer = None
    /\ app \in {NewApp(b) : b \in BOOLEAN}

NextApp ==
    \/ \E list \in HookLists, f \in Hooks : Register(list, f)
    \/ \E b \in BOOLEAN : SetBroker(b)
    \/ Run
    \/ StartBegin
    \/ \E sig \in Signals : Signal(sig)
    \/ ReceiveSignal
    \/ StartupStep
    \/ ShutdownStep
    \/ StartTaskDone
    \/ HostCancelled
    \/ StartCancelled
    \/ RunExit

SpecApp == InitApp /\ [][NextApp]_vars

\* ----------------------------------------------------------- RabbitDeclarer

\* the RabbitQueue schemas used as keys of RabbitDeclarer.queues
Queues == {"q1", "q2"}

\* RabbitDeclarer.__init__: no queue cached; `declared` lists the invocations
\* of channel.declare_queue made so far, `calls` holds the frame of each
\* task's declare_queue call, `returned` what the calls have returned
NewDeclarer ==
    [queues |-> [queue \in Queues |-> None],
     declared |-> <<>>,
     calls |-> [t \in Tasks |-> [pc |-> "idle", queue |-> "", n |-> 0]],
     returned |-> {}]

\* the aio_pika.RobustQueue object the n-th invocation of
\* channel.declare_queue creates
RobustQueue(queue, n) == <<"RobustQueue", queue, n>>

\* a declarer step leaves the dispatcher, the lock clients, the watcher and
\* the application alone
DeclarerStep(d) ==
    /\ declarer' = d
    /\ UNCHANGED <<running, calls, middlewares, graceful_timeout, lock,
                   IS_OPTIMIZED, debug, tasks, closer, client, watcher, app>>

\* lines 62-64: task t calls declare_queue(queue); a cached object is
\* returned without suspending, otherwise channel.declare_queue is invoked
\* and awaited
DeclareQueue(t, queue) ==
    LET q == declarer.queues[queue] IN
    /\ declarer.calls[t].pc = "idle"
    /\ IF q # None
       THEN DeclarerStep([declarer EXCEPT !.returned = @ \cup {<<queue, q>>}])
       ELSE /\ Len(declarer.declared) < MaxDeclares
            /\ DeclarerStep(
                 [declarer EXCEPT
                    !.declared = Append(@, [queue |-> queue, state |-> "pending"]),
                    !.calls[t] = [pc |-> "channel", queue |-> queue,
                                  n |-> Len(declarer.declared) + 1]])

\* lines 64-79: channel.declare_queue returns a new queue object, which is
\* stored under the key and returned; or it raises, and nothing is stored
ChannelDeclared(t) ==
    LET c == declarer.calls[t]
        q == RobustQueue(c.queue, c.n)
    IN
    /\ c.pc = "channel"
    /\ \E ok \in BOOLEAN :
         DeclarerStep(
           IF ok
           THEN [declarer EXCEPT !.queues[c.queue] = q,
                                 !.declared[c.n].state = "done",
                                 !.returned = @ \cup {<<c.queue, q>>},
                                 !.calls[t] = NewDeclarer.calls[t]]
           ELSE [declarer EXCEPT !.declared[c.n].state = "raised",
                                 !.calls[t] = NewDeclarer.calls[t]])

\* a declarer used by concurrent tasks
InitDeclarer ==
    /\ running = FALSE
    /\ calls = <<>>
    /\ middlewares = 0
    /\ graceful_timeout = None
    /\ lock = MultiLockInit
    /\ IS_OPTIMIZED = FALSE
    /\ debug = TRUE
    /\ tasks = [t \in Tasks |-> IdleTask]
    /\ closer = "idle"
    /\ client = ClientInit
    /\ watcher = None
    /\ app = None
    /\ declarer = NewDeclarer

NextDeclarer ==
    \/ \E t \in Tasks, queue \in Queues : DeclareQueue(t, queue)
    \/ \E t \in Tasks : ChannelDeclared(t)

SpecDeclarer == InitDeclarer /\ [][NextDeclarer]_vars

\* BaseHandler.__init__
Init ==
    /\ running = FALSE
    /\ calls = <<>>
    /\ middlewares \in 0..MaxMiddlewares
    /\ graceful_timeout \in {None, <<1>>}
    /\ lock = MultiLockInit
    /\ IS_OPTIMIZED = FALSE
    /\ debug \in BOOLEAN
    /\ tasks = [t \in Tasks |-> IdleTask]
    /\ closer = "idle"
    /\ ElsewhereInit

\* the steps of delivery task t, its deliveries drawn from msgs
TaskNext(t, msgs) ==
    \/ \E msg \in msgs : Consume(t, msg)
    \/ EnterGlobalMiddleware(t)
    \/ EnterLocalMiddleware(t)
    \/ Parser(t)
    \/ Decoder(t)
    \/ Filter(t)
    \/ ConsumeScope(t)
    \/ Handler(t)
    \/ PublishScope(t)
    \/ Publish(t)
    \/ ScopeExit(t)
    \/ ScopeExitOutcome(t)
    \/ TaskTimeout(t)
    \/ CloseReturn(t)
    \/ ExitScope(t)
    \/ ExitScopeOutcome(t)
    \/ Return(t)

Next ==
    \/ TaskNext("t1", Msgs)
    \/ \E m \in 0..MaxMiddlewares, p \in 0..MaxPublishers : AddCall(m, p)
    \/ Start
    \/ Close
    \/ Timeout
    \/ CloseDone

Spec == Init /\ [][Next]_vars


\* no middleware factory is registered, globally or on an item
NoMiddlewares ==
    middlewares = 0 /\ \A i \in 1..Len(calls) : calls[i].middlewares = 0

\* the steps of delivery task t on a dispatcher without middlewares: no scope
\* is ever entered, so the remaining steps of TaskNext are never enabled
TaskNextBare(t, msgs) ==
    /\ NoMiddlewares
    /\ \/ \E msg \in msgs : Consume(t, msg)
       \/ Parser(t)
       \/ Decoder(t)
       \/ Filter(t)
       \/ Handler(t)
       \/ Publish(t)
       \/ TaskTimeout(t)
       \/ CloseReturn(t)
       \/ Return(t)

\* A dispatcher built with one handler item and no middleware, serving
\* concurrent deliveries.
InitConc ==
    /\ running = FALSE
    /\ calls = <<[middlewares |-> 0, publishers |-> 0]>>
    /\ middlewares = 0
    /\ graceful_timeout \in GracefulTimeouts
    /\ lock = MultiLockInit
    /\ IS_OPTIMIZED = FALSE
    /\ debug = TRUE
    /\ tasks = [t \in Tasks |-> IdleTask]
    /\ closer = "idle"
    /\ ElsewhereInit

NextConc ==
    \/ \E t \in Tasks : TaskNextBare(t, {"m1"})
    \/ Start
    \/ Close
    \/ Timeout
    \/ CloseDone

SpecConc == InitConc /\ [][NextConc]_vars


\* The same dispatcher, built with a positive graceful timeout
InitDrain == InitConc /\ Truthy(graceful_timeout)

\* The event loop's guarantees: a deadline that is set passes, and a
\* coroutine whose wait was resumed or cancelled is run.  Nothing is assumed
\* of the collaborators a delivery awaits: a consume() call may stay
\* suspended for ever.
SpecDrain ==
    /\ InitDrain /\ [][NextConc]_vars
    /\ WF_vars(Timeout)
    /\ WF_vars(CloseDone)
    /\ \A t \in Tasks : WF_vars(TaskTimeout(t)) /\ WF_vars(CloseReturn(t))


\* A dispatcher with two handler items, each with a local middleware, and at
\* most one global middleware, serving one delivery at a time; the release
\* path of a Middleware Scope may itself raise or swallow the pending error.
InitScopes ==
    /\ running = FALSE
    /\ calls = <<[middlewares |-> 1, publishers |-> 1],
                 [middlewares |-> 1, publishers |-> 0]>>
    /\ middlewares \in 0..1
    /\ graceful_timeout \in {None, <<1>>}
    /\ lock = MultiLockInit
    /\ IS_OPTIMIZED = FALSE
    /\ debug = TRUE
    /\ tasks = [t \in Tasks |-> IdleTask]
    /\ closer = "idle"
    /\ ElsewhereInit

NextScopes ==
    \/ TaskNext("t1", {"m1"})
    \/ Start
    \/ Close
    \/ Timeout
    \/ CloseDone

SpecScopes == InitScopes /\ [][NextScopes]_vars


\* A dispatcher with two handler items, a global middleware and a local one,
\* serving one delivery at a time, run either with the fast path of lines
\* 291-292 or without it.
InitFast ==
    /\ running = FALSE
    /\ calls = <<[middlewares |-> 0, publishers |-> 1],
                 [middlewares |-> 1, publishers |-> 0]>>
    /\ middlewares = 1
    /\ graceful_timeout = <<1>>
    /\ lock = MultiLockInit
    /\ IS_OPTIMIZED \in BOOLEAN
    /\ debug \in BOOLEAN
    /\ tasks = [t \in Tasks |-> IdleTask]
    /\ closer = "idle"
    /\ ElsewhereInit

NextFast ==
    \/ TaskNext("t1", {"m1"})
    \/ Start
    \/ Close
    \/ Timeout
    \/ CloseDone

SpecFast == InitFast /\ [][NextFast]_vars


\* ------------------------------------------------------------------ claims

IsPrefix(a, b) == Len(a) <= Len(b) /\ SubSeq(b, 1, Len(a)) = a

InFlight == {t \in Tasks : tasks[t].pc \notin {"idle", "done"}}

\* the items whose filter returned true in the call of frame s
Accepted(s) == {s.fevals[n][1] : n \in {m \in 1..Len(s.fevals) : s.fevals[m][3]}}

\* the outcomes recorded for item j in frame s
OutcomesOf(s, j) == {n \in 1..Len(s.triggers) : s.triggers[n].h = j}

\* the item whose success frame s recorded first (0: no success yet)
SuccessItemOf(s) ==
    IF s.at_success = None THEN 0 ELSE s.at_success.item

\* no scope exit of the call of frame s has raised or returned a true value:
\* every middleware of the call has let the errors it saw pass through
ExitsClean(s) == s.faults = 0

\* the error a handler invocation of class c, the last of frame s, raised is
\* on its way to the caller: pending while the consume_stack unwinds, then
\* leaving the outer stack
Propagating(s, c) ==
    LET n == Len(s.invoked) IN
    (n >= 1 /\ s.invoked[n].o = c) =>
        LET e == Err(c, "handler", s.invoked[n].h)
        IN  IF s.pc = "scope_exit" THEN s.pending = e ELSE s.exc = e

\* the positions of `invoked` at which the handler raised StopConsume
Stopped(s) == {n \in 1..Len(s.invoked) : s.invoked[n].o = "StopConsume"}

\* C1: the Drain Lock count always equals the number of consume() calls that
\* have entered the lock and not yet returned or raised, under any
\* interleaving of concurrent calls and for every outcome.
C1_LockCountsInFlight ==
    /\ lock.qsize = Cardinality(InFlight)
    /\ lock.unfinished = Cardinality(InFlight)

\* C1 witness: one call has raised while another is still in flight, and
\* only the latter is counted.
C1_Witness ==
    \E t \in Tasks, u \in Tasks :
        /\ t # u
        /\ tasks[t].pc = "done" /\ tasks[t].was_running
        /\ tasks[t].ret[1] = "raise"
        /\ tasks[u].pc = "handler"
        /\ lock.qsize = 1

\* C2: when a filter accepts a delivery that an earlier item's filter of the
\* same call accepted, consume() raises the invariant violation and the later
\* handler is not invoked; so at most one handler is invoked per delivery.
C2_OverlapRaises ==
    \A t \in Tasks :
        LET s == tasks[t] IN
        /\ Len(s.invoked) <= 1
        /\ \A a \in 1..Len(s.fevals), b \in 1..Len(s.fevals) :
             (a < b /\ s.fevals[a][3] /\ s.fevals[b][3]) =>
                /\ s.exc = Err("AssertionError", "multiple consumers", s.fevals[b][1])
                /\ \A n \in 1..Len(s.invoked) : s.invoked[n].h # s.fevals[b][1]

\* C3: when exactly one item's filter accepts, only that item's handler is
\* invoked, at most once, whatever else happens in the call; a call that
\* processed the message with a handler that returned a value returns that
\* value; and where every middleware lets errors pass through its exit, a call
\* that processed the message invoked the handler exactly once and a call
\* that returns returns what the handler returned.
C3_FirstMatch ==
    \A t \in Tasks :
        LET s == tasks[t] IN
        Cardinality(Accepted(s)) = 1 =>
            LET j == CHOOSE x \in Accepted(s) : TRUE
                returned == s.invoked # <<>>
                            /\ s.invoked[1].o \in {"result", "result+reply"}
            IN
            /\ Len(s.invoked) <= 1
            /\ \A n \in 1..Len(s.invoked) : s.invoked[n].h = j
            /\ (s.processed /\ ExitsClean(s)) => Len(s.invoked) = 1
            /\ (s.pc = "done" /\ s.ret[1] = "return" /\ s.processed /\ returned) =>
                  s.ret[2] = HandlerOutput(j, s.msg)
            /\ (s.pc = "done" /\ s.ret[1] = "return" /\ ExitsClean(s)) =>
                  s.ret[2] = IF returned THEN HandlerOutput(j, s.msg) ELSE None

\* C3 witness: of two items the first accepted and the second, scanned after
\* it, rejected; the call returned the first handler's output.
C3_Witness ==
    \E t \in Tasks :
        LET s == tasks[t] IN
        /\ s.pc = "done"
        /\ Len(s.fevals) = 2 /\ Accepted(s) = {1}
        /\ s.ret = <<"return", HandlerOutput(1, s.msg)>>

\* C4 (as claimed): a message delivered while running = true that no handler
\* was invoked for never makes consume() return; it raises.
C4_NeverReturnsUnconsumed ==
    \A t \in Tasks :
        LET s == tasks[t] IN
        (s.pc = "done" /\ s.was_running /\ s.invoked = <<>> /\ ~s.processed)
            => s.ret[1] = "raise"

\* C4 (amended): if the dispatcher is running when the handler-item loop ends,
\* no item consumed the message and assert statements are executed, consume()
\* raises the invariant violation, which reaches the caller unless the exit of
\* a middleware scope, run while it propagates, swallows or replaces it; an
\* entered call returns an unconsumed message's empty result only if running
\* was false when its loop ended, the interpreter runs with the assert
\* statements compiled out, or such an exit swallowed the error.
C4_RaisesIfRunningAtLoopEnd ==
    \A t \in Tasks :
        LET s == tasks[t]
            e == Err("AssertionError", "You have to consume message", 0)
        IN
        /\ (s.running_at_end = <<TRUE>> /\ ~s.processed /\ debug) =>
              /\ s.pc \in {"exit", "done"}
              /\ s.exc = e \/ (~ExitsClean(s) /\ s.torn # <<>>)
              /\ s.pc = "done" => s.ret = IF s.exc = None THEN <<"return", s.result_msg>>
                                                           ELSE <<"raise", s.exc>>
        /\ (s.pc = "done" /\ s.was_running /\ ~s.processed /\ s.ret[1] = "return")
              => (s.running_at_end = <<FALSE>> \/ ~debug
                    \/ (~ExitsClean(s) /\ s.torn # <<>>))

\* C4 witness: every scanned item rejected the message of a running
\* dispatcher and the call raised the invariant violation.
C4_Witness ==
    \E t \in Tasks :
        LET s == tasks[t] IN
        /\ s.pc = "done" /\ running
        /\ Len(s.fevals) >= 1 /\ Accepted(s) = {}
        /\ s.ret = <<"raise", Err("AssertionError", "You have to consume message", 0)>>

\* the outcomes of a handler call that make `result` a pair
ReturnsPair == HandlerReturns \ {"none"}

\* the publish calls lines 259-274 owe for the n-th handler invocation of
\* frame s: the inline response target if any, then the item's static
\* publishers, each with the inbound message's correlation id
Owed(s, n) ==
    LET v == s.invoked[n]
        cid == CorrelationId(s.msg)
    IN  IF v.o \notin ReturnsPair THEN <<>>
        ELSE (IF v.o \in {"result+reply", "none+reply"}
              THEN << <<<<"reply">>, cid>> >> ELSE <<>>)
             \o [j \in 1..calls[v.h].publishers |-> << <<"static", v.h, j>>, cid >>]

\* the publish calls owed for the last handler invocation of frame s
ExpectedPublishes(s) ==
    IF s.invoked = <<>> THEN <<>> ELSE Owed(s, Len(s.invoked))

RECURSIVE PublishedFor(_, _, _)
PublishedFor(s, j, n) ==
    IF n = 0 THEN <<>>
    ELSE LET rest == PublishedFor(s, j, n - 1)
         IN  IF s.published_by[n] = j THEN Append(rest, s.published[n]) ELSE rest

\* the publishes frame s has made for item j, in order
PublishedOf(s, j) == PublishedFor(s, j, Len(s.published))

\* C5: every publish carries the inbound correlation id and is made for an
\* item whose filter accepted the message, the items in scan order.  Where
\* every middleware lets errors pass through its exit, the publishes made for
\* a matched item are, in order, one per non-null publisher among the inline
\* response target and the item's static publishers; all of them are made
\* once the item is processed; no publish is made for an item whose handler
\* was not invoked or did not return a result.
C5_PublishesAsSpecified ==
    \A t \in Tasks :
        LET s == tasks[t] IN
        /\ \A m \in 1..Len(s.published) :
              /\ s.published[m][2] = CorrelationId(s.msg)
              /\ s.published_by[m] \in Accepted(s)
        /\ \A a, b \in 1..Len(s.published) :
              a < b => s.published_by[a] <= s.published_by[b]
        /\ ExitsClean(s) =>
              /\ \A n \in 1..Len(s.invoked) :
                    IsPrefix(PublishedOf(s, s.invoked[n].h), Owed(s, n))
              /\ \A m \in 1..Len(s.published) :
                    \E n \in 1..Len(s.invoked) : s.invoked[n].h = s.published_by[m]
              /\ s.at_success # None =>
                    LET n == s.at_success.invoked
                    IN  /\ n >= 1
                        /\ s.invoked[n].h = s.at_success.item
                        /\ PublishedOf(s, s.invoked[n].h) = Owed(s, n)
              /\ (s.processed /\ Len(s.invoked) = 1) =>
                    s.published = ExpectedPublishes(s)

\* C5 witness: a call returned after publishing to the inline response target
\* and then to a static publisher.
C5_Witness ==
    \E t \in Tasks :
        LET s == tasks[t] IN
        /\ s.pc = "done" /\ s.ret[1] = "return"
        /\ Len(s.published) = 2
        /\ s.published[1][1] = <<"reply">>
        /\ s.published[2][1][1] = "static"

\* C6: a consume() call made while running = false returns the empty result
\* and changes nothing: not the lock, not the running flag, no outcome, no
\* publish, no scope, no other call's frame.
C6_NotRunningNoEffect ==
    [][\A t \in Tasks :
          (tasks[t].pc = "idle" /\ tasks'[t].pc # "idle" /\ ~running) =>
             /\ tasks'[t] = [IdleTask EXCEPT !.pc = "done",
                                             !.msg = tasks'[t].msg,
                                             !.ret = <<"return", None>>]
             /\ \A u \in Tasks \ {t} : tasks'[u] = tasks[u]
             /\ UNCHANGED <<running, lock, closer, config, elsewhere>>]_vars

\* C6 witness: a delivery to a stopped dispatcher with a registered item
\* returned the empty result.
C6_Witness ==
    \E t \in Tasks :
        /\ tasks[t].pc = "done" /\ ~tasks[t].was_running
        /\ tasks[t].ret = <<"return", None>>
        /\ Len(calls) >= 1 /\ ~running

\* C7: when the matched handler raises the controlled stop (and start() has
\* not been called since), consume() returns without raising and exactly one
\* outcome, carrying neither result nor error, is recorded for that handler.
C7_StopReturnsCleanly ==
    \A t \in Tasks :
        LET s == tasks[t] IN
        (s.pc = "done" /\ ~running /\ Stopped(s) # {}) =>
            /\ s.ret[1] = "return"
            /\ \A n \in Stopped(s) :
                 LET rec == {m \in 1..Len(s.triggers) : s.triggers[m].h = s.invoked[n].h}
                 IN  /\ Cardinality(rec) = 1
                     /\ \A m \in rec : s.triggers[m].result = None
                                       /\ s.triggers[m].error = None

\* C8 (as claimed): any error of the handler invocation or of a consume-scope
\* that is neither the controlled stop nor a declared handler error is
\* recorded once as a failure outcome carrying that error and then propagates.
C8_AnyOtherErrorRecorded ==
    \A t \in Tasks :
        LET s == tasks[t] IN
        (s.exc # None /\ s.exc[1] \in {"Exception", "BaseException"}
                      /\ s.exc[2] \in {"handler", "consume_scope"}) =>
            /\ Len(s.triggers) >= 1
            /\ s.triggers[Len(s.triggers)] = [h |-> s.exc[3], result |-> None, error |-> s.exc]
            /\ s.pc = "done" => s.ret = <<"raise", s.exc>>

\* C8 (amended): an Exception of the handler invocation or of a consume-scope
\* that is neither the controlled stop nor a declared handler error is
\* recorded once as a failure outcome carrying that error, then propagates as
\* the same error; the item does not mark the message processed and no later
\* item is scanned (the message is marked processed only if an earlier item
\* had completed, which the overlap assertion excludes when it is executed).
\* An exception that is no Exception (a cancellation) propagates the same way
\* with no outcome recorded for the item.  The error reaches the except
\* clauses and the caller unless the exit of a middleware scope swallows or
\* replaces it on the way.
C8_UnclassifiedRecorded ==
    \A t \in Tasks :
        LET s == tasks[t] IN
        /\ ExitsClean(s) => (Propagating(s, "Exception") /\ Propagating(s, "BaseException"))
        /\ (s.exc # None /\ s.exc[1] \in {"Exception", "BaseException"}
                      /\ s.exc[2] \in {"handler", "consume_scope"}) =>
            LET j == s.exc[3]
                rec == {m \in 1..Len(s.triggers) : s.triggers[m].h = j}
            IN
            /\ s.exc[1] = "Exception" =>
                  /\ rec = {Len(s.triggers)}
                  /\ s.triggers[Len(s.triggers)] = [h |-> j, result |-> None, error |-> s.exc]
                  /\ Cardinality({m \in 1..Len(s.triggers) : s.triggers[m].error # None}) = 1
            /\ s.exc[1] = "BaseException" => rec = {}
            /\ s.processed = s.msg_processed
            /\ s.processed => (s.at_success # None /\ SuccessItemOf(s) < j)
            /\ debug => (~s.processed /\ ~s.msg_processed)
            /\ s.i = j
            /\ \A n \in 1..Len(s.parsed) : s.parsed[n] <= j
            /\ \A n \in 1..Len(s.fevals) : s.fevals[n][1] <= j
            /\ \A n \in 1..Len(s.invoked) : s.invoked[n].h <= j
            /\ s.pc \in {"exit", "done"}
            /\ s.pc = "done" => s.ret = <<"raise", s.exc>>

\* C8 witness: the first of two items matched and its handler raised an
\* unclassified error, which consume() raised.
C8_Witness ==
    \E t \in Tasks :
        /\ tasks[t].pc = "done" /\ Len(calls) = 2
        /\ tasks[t].ret = <<"raise", Err("Exception", "handler", 1)>>

\* C9 (as claimed): a declared handler error is recorded as a failure
\* outcome, i.e. one that carries the error and so differs from the outcome
\* of a controlled stop and of a success, and is then raised unchanged.
C9_DeclaredErrorIsFailure ==
    \A t \in Tasks :
        LET s == tasks[t] IN
        (s.exc # None /\ s.exc[1] = "HandlerException") =>
            /\ Len(s.triggers) >= 1
            /\ s.triggers[Len(s.triggers)].error # None
            /\ s.pc = "done" => s.ret = <<"raise", s.exc>>

\* C9 (amended): a declared handler error is recorded by one trigger() call
\* that carries neither result nor error (the record a controlled stop
\* leaves), and is then raised unchanged, unless the exit of a middleware
\* scope swallows or replaces it on the way.
C9_DeclaredErrorRecordedBare ==
    \A t \in Tasks :
        LET s == tasks[t] IN
        /\ ExitsClean(s) => Propagating(s, "HandlerException")
        /\ (s.exc # None /\ s.exc[1] = "HandlerException") =>
            /\ Len(s.triggers) >= 1
            /\ s.triggers[Len(s.triggers)] =
                  [h |-> s.exc[3], result |-> None, error |-> None]
            /\ Cardinality({m \in 1..Len(s.triggers) : s.triggers[m].h = s.exc[3]}) = 1
            /\ s.pc \in {"exit", "done"}
            /\ s.pc = "done" => s.ret = <<"raise", s.exc>>

\* C9 witness: consume() raised the declared handler error of its handler.
C9_Witness ==
    \E t \in Tasks :
        /\ tasks[t].pc = "done"
        /\ tasks[t].ret = <<"raise", Err("HandlerException", "handler", 1)>>

\* C10 (as claimed): an error of a parser, decoder or filter is recorded as a
\* failure outcome carrying the error before it is raised.
C10_ScanErrorIsRecorded ==
    \A t \in Tasks :
        LET s == tasks[t] IN
        (s.exc # None /\ s.exc[2] \in {"parser", "decoder", "filter"}) =>
            \E m \in 1..Len(s.triggers) : s.triggers[m].error = s.exc

\* the error of a parser, decoder or filter that leaves the outer stack of
\* frame s
ScanErrorOf(s) ==
    s.exc # None /\ s.exc[2] \in {"parser", "decoder", "filter"}

\* C10 (amended): an error of a parser, decoder or filter is raised to the
\* caller with no outcome recorded for that item and no recorded outcome
\* carrying an error; only the exit of a middleware scope that swallows or
\* replaces it keeps it from the caller.
C10_ScanErrorNotRecorded ==
    /\ [](\A t \in Tasks :
            LET s == tasks[t] IN
            ScanErrorOf(s) =>
                /\ \A m \in 1..Len(s.triggers) :
                      s.triggers[m].h # s.exc[3] /\ s.triggers[m].error = None
                /\ s.pc \in {"exit", "done"}
                /\ s.pc = "done" => s.ret = <<"raise", s.exc>>)
    /\ [][\A t \in Tasks :
            (ScanErrorOf(tasks[t]) /\ tasks'[t].exc # tasks[t].exc) =>
                \/ tasks'[t] = IdleTask
                \/ tasks'[t].faults > tasks[t].faults]_vars

\* C10 witness: consume() raised the error of an item's filter.
C10_Witness ==
    \E t \in Tasks :
        /\ tasks[t].pc = "done"
        /\ tasks[t].ret = <<"raise", Err("Exception", "filter", 1)>>

\* a sequence in reverse order
Reverse(seq) == [n \in 1..Len(seq) |-> seq[Len(seq) + 1 - n]]

RECURSIVE LocalScopes(_)
\* the Middleware Scopes of the local factories of items j .. Len(calls)
LocalScopes(j) ==
    IF j > Len(calls) THEN <<>>
    ELSE [k \in 1..calls[j].middlewares |-> <<"local", j, k>>] \o LocalScopes(j + 1)

\* the Middleware Scopes a call that scans every item creates, in order
AllScopes == [k \in 1..middlewares |-> <<"gl", k>>] \o LocalScopes(1)

\* C11: every Middleware Scope a consume() call entered (one per global
\* factory, one per local factory of every item scanned) is torn down exactly
\* once before the call returns or raises, whatever the exit path; no scope is
\* torn down while the body still runs.
C11_ScopesTornDownOnce ==
    \A t \in Tasks :
        LET s == tasks[t] IN
        /\ IsPrefix(s.entered, AllScopes)
        /\ s.i >= 1 => \A k \in 1..middlewares :
                          \E n \in 1..Len(s.entered) : s.entered[n] = <<"gl", k>>
        /\ \A m \in 1..Len(s.parsed) : \A k \in 1..calls[s.parsed[m]].middlewares :
              \E n \in 1..Len(s.entered) : s.entered[n] = <<"local", s.parsed[m], k>>
        /\ IsPrefix(s.torn, Reverse(s.entered))
        /\ s.pc \notin {"idle", "done", "exit"} =>
              /\ s.torn = <<>>
              /\ s.stack = <<"lock", "handler_">> \o s.entered
        /\ s.pc = "exit" =>
              s.stack = <<"lock", "handler_">>
                          \o SubSeq(s.entered, 1, Len(s.entered) - Len(s.torn))
        /\ s.pc = "done" => s.torn = Reverse(s.entered) /\ s.stack = <<>>

\* C11 witness: entering the second item's local middleware failed after a
\* global and a local scope had been entered; both were torn down, innermost
\* first, before the call raised.
C11_Witness ==
    \E t \in Tasks :
        LET s == tasks[t] IN
        /\ s.pc = "done"
        /\ s.ret = <<"raise", Err("Exception", "middleware", 2)>>
        /\ s.torn = << <<"local", 1, 1>>, <<"gl", 1>> >>

\* C12: close() with a graceful timeout always terminates, whether called by
\* the application or by the controlled-stop clause of a consume() call, even
\* if in-flight consume() calls never finish; neither the expiry of the
\* timeout nor the return of close() changes any consume() frame or the lock.
C12_CloseTerminates ==
    /\ (closer = "join") ~> (closer = "idle")
    /\ \A t \in Tasks : (tasks[t].pc = "close") ~> (tasks[t].pc # "close")
    /\ [][(closer # "idle" /\ closer' \in {"expired", "idle"} /\ closer' # closer)
             => (tasks' = tasks /\ lock' = lock)]_vars

\* C12 witness: the timeout of the application's close() has expired while a
\* consume() call is still suspended in its handler.
C12_Witness ==
    /\ closer = "expired"
    /\ \E t \in Tasks : tasks[t].pc = "handler"
    /\ lock.unfinished >= 1

\* C13: while running is false no consume() call passes the entry check and
\* the Drain Lock count does not increase, under any interleaving of
\* concurrent consume(), close() and start() calls; a call that passed the
\* check holds the lock from that same step on.
C13_NoEntryWhileStopped ==
    [][/\ ~running =>
            /\ lock'.qsize <= lock.qsize
            /\ lock'.unfinished <= lock.unfinished
            /\ \A t \in Tasks :
                 (tasks[t].pc = "idle" /\ tasks'[t].pc # "idle") =>
                    (tasks'[t].pc = "done" /\ ~tasks'[t].was_running
                                           /\ tasks'[t].stack = <<>>)
       /\ \A t \in Tasks :
            (tasks[t].pc = "idle" /\ tasks'[t].pc \notin {"idle", "done"}) =>
               (running /\ InLock(tasks'[t]) /\ lock'.qsize = lock.qsize + 1)]_vars

\* C13 witness: after a close() made while one call was in flight, a second
\* delivery was turned away at the entry check; only the first call is
\* counted by the lock.
C13_Witness ==
    \E t \in Tasks, u \in Tasks :
        /\ ~running
        /\ tasks[t].was_running /\ tasks[t].pc = "handler" /\ tasks[t].invoked = <<>>
        /\ tasks[u].pc = "done" /\ ~tasks[u].was_running
        /\ tasks[u].ret = <<"return", None>>
        /\ lock.qsize = 1

\* C14: wait_release with a positive timeout returns at the first of: the
\* in-flight count reaching zero, the timeout elapsing.  While it waits the
\* count is above zero; it is resumed in the very step that brings the count
\* to zero; it returns only after being resumed or after the deadline passed;
\* called on an empty lock it returns at once.
C14_ReturnsAtFirstEvent ==
    /\ [](closer = "join" => (lock.unfinished > 0 /\ Truthy(graceful_timeout)))
    /\ [](\A t \in Tasks : tasks[t].pc = "close" =>
             (lock.unfinished > 0 /\ ~tasks[t].woken /\ Truthy(graceful_timeout)))
    /\ [][/\ (closer' = "idle" /\ closer # "idle") => closer \in {"woken", "expired"}
          /\ (closer' = "woken" /\ closer # "woken") =>
                (closer = "join" /\ lock.unfinished > 0 /\ lock'.unfinished = 0)
          /\ (closer' = "expired" /\ closer # "expired") =>
                (closer = "join" /\ lock' = lock /\ lock.unfinished > 0)
          /\ (closer = "idle" /\ running /\ ~running' /\ tasks' = tasks
                              /\ Truthy(graceful_timeout)) =>
                closer' = IF lock.unfinished > 0 THEN "join" ELSE "idle"]_vars

\* C14 witness: the application's close() was resumed before its deadline
\* because every in-flight consume() call has exited.
C14_Witness ==
    /\ closer = "woken"
    /\ lock.unfinished = 0
    /\ \E t \in Tasks : tasks[t].pc = "done" /\ tasks[t].was_running

\* C15: wait_release with the timeout unset or zero returns immediately,
\* whatever the in-flight count: on a dispatcher whose graceful timeout is
\* unset or zero no close() is ever suspended, neither the application's nor
\* the one awaited by the controlled-stop clause.
C15_NoWaitWithoutTimeout ==
    graceful_timeout \in {None, <<0>>} =>
        /\ closer = "idle"
        /\ \A t \in Tasks : tasks[t].pc # "close"

\* C15 witness: on a dispatcher with a zero graceful timeout the
\* application's close() has returned while a consume() call, entered before
\* it, is still in its handler.
C15_Witness ==
    /\ graceful_timeout = <<0>>
    /\ ~running /\ closer = "idle"
    /\ \A t \in Tasks : Stopped(tasks[t]) = {}
    /\ \E t \in Tasks : tasks[t].pc = "handler" /\ tasks[t].was_running
    /\ lock.unfinished >= 1

\* C16: the Drain Lock count is never negative; enter() always succeeds and
\* adds one; exit() takes one off a positive count; exit() on an empty lock
\* leaves the count at zero; exit() raises nothing to its caller.
C16_CountNeverNegative ==
    /\ [](lock.qsize >= 0 /\ lock.unfinished = lock.qsize)
    /\ [](\A t \in Tasks : client[t].last # None => client[t].last[3] = None)
    /\ [][\A t \in Tasks :
            client'[t] # client[t] =>
               /\ client'[t].last[2] = lock.qsize
               /\ client'[t].last[1] = "enter" => lock'.qsize = lock.qsize + 1
               /\ client'[t].last[1] = "exit" =>
                     lock'.qsize = IF lock.qsize > 0 THEN lock.qsize - 1 ELSE 0]_vars

\* C16 witness: a client called exit() on an empty lock after another had
\* entered and left it; the count is zero.
C16_Witness ==
    \E t \in Tasks, u \in Tasks :
        /\ t # u
        /\ client[t].last = <<"exit", 0, None>> /\ client[t].held = 0
        /\ client[u].last = <<"exit", 1, None>>
        /\ lock.qsize = 0

\* C17: the bounded-counter watcher keeps one attempt count per message
\* identity; a failure adds one to that identity's count only and decides
\* retry while the count is below max_tries, terminal from then on (for
\* max_tries = 3: retry on failures 1 and 2, terminal on failure 3); a
\* success resets that identity's count to 0 and no other.
C17_BoundedCounter ==
    /\ [](watcher # None /\ watcher.obj.kind = "CounterWatcher"
                         /\ watcher.last # None =>
            LET id == watcher.last[2]
                n == watcher.obj.memory[id]
                N == watcher.obj.max_tries[1]
            IN  /\ watcher.last[1] = "success" => n = 0
                /\ watcher.last[1] = "failure" =>
                      /\ n >= 1
                      /\ watcher.last[3] = IF n < N THEN "retry" ELSE "terminal"
                      /\ (N = 3 /\ n \in {1, 2}) => watcher.last[3] = "retry"
                      /\ (N = 3 /\ n = 3) => watcher.last[3] = "terminal")
    /\ [][(watcher # None /\ watcher.obj.kind = "CounterWatcher"
                          /\ watcher' # watcher) =>
            LET id == watcher'.last[2] IN
            /\ \A o \in MsgIds \ {id} :
                  watcher'.obj.memory[o] = watcher.obj.memory[o]
            /\ watcher'.last[1] = "failure" =>
                  watcher'.obj.memory[id] = watcher.obj.memory[id] + 1
            /\ watcher'.obj.max_tries = watcher.obj.max_tries]_vars

\* C17 witness: with max_tries = 3 the third failure of one identity was
\* decided terminal while another identity stands at one failure.
C17_Witness ==
    /\ watcher # None
    /\ watcher.obj.kind = "CounterWatcher" /\ watcher.obj.max_tries = <<3>>
    /\ watcher.last = <<"failure", "a", "terminal">>
    /\ watcher.obj.memory = [id \in MsgIds |-> IF id = "a" THEN 3 ELSE 1]

\* C18: get_watcher(True) and get_watcher() make the unlimited-retry
\* watcher, get_watcher(False) the single-attempt watcher, and every integer
\* n, 0 and 1 included, the bounded-counter watcher with max_tries = n.
C18_WatcherSelection ==
    watcher # None =>
        LET w == watcher.obj IN
        IF watcher.args = None \/ watcher.args = << <<"bool", TRUE>> >>
        THEN w.kind = "EndlessWatcher"
        ELSE IF watcher.args = << <<"bool", FALSE>> >>
        THEN w.kind = "OneTryWatcher"
        ELSE /\ watcher.args[1][1] = "int"
             /\ w.kind = "CounterWatcher"
             /\ w.max_tries = <<watcher.args[1][2]>>

\* C18 witness: get_watcher(logger, 1) made a bounded-counter watcher with
\* max_tries = 1, which decided its first failure terminal.
C18_Witness ==
    /\ watcher # None
    /\ watcher.args = << <<"int", 1>> >>
    /\ watcher.obj.kind = "CounterWatcher" /\ watcher.obj.max_tries = <<1>>
    /\ watcher.last = <<"failure", "a", "terminal">>

\* what the run() call in progress, or the last one, has logged
Seg(a) == SubSeq(a.log, a.mark + 1, Len(a.log))

\* the number of events of the given kind that seg has for a hook list
CountOf(seg, kind, list) ==
    Cardinality({p \in 1..Len(seg) : seg[p][1] = kind /\ seg[p][2] = list})

\* the call and completion events of the first n hooks of a list, in
\* registration order
HookEvents(a, list, n) ==
    [j \in 1..(2 * n) |->
        <<IF j % 2 = 1 THEN "call" ELSE "done", list, (j + 1) \div 2,
          a[list][(j + 1) \div 2]>>]

\* the call and completion of a broker operation, if seg has the call
BrokerEvents(seg, op) ==
    IF \E p \in 1..Len(seg) : seg[p] = <<"call", op>>
    THEN << <<"call", op>>, <<"done", op>> >> ELSE <<>>

\* the events of the log that belong to the given lists and broker operation
EventsOf(log, names) == SelectSeq(log, LAMBDA e : e[2] \in names)

\* sl follows the order of exp: it is a beginning of exp, or a beginning of
\* exp whose last call raised instead of completing
InOrder(sl, exp) ==
    \E n \in 0..Len(exp) :
        \/ sl = SubSeq(exp, 1, n)
        \/ /\ n >= 1
           /\ exp[n][1] = "call"
           /\ sl = Append(SubSeq(exp, 1, n), [exp[n] EXCEPT ![1] = "raise"])

\* the events of a sequence (_startup or _shutdown) in seg are those of the
\* hooks of list `before` called so far, in registration order and each run to
\* completion before the next, then the broker operation, then those of the
\* hooks of list `after` called so far
SequenceInOrder(a, before, op, after) ==
    LET seg == Seg(a)
        n1 == CountOf(seg, "call", before)
        n2 == CountOf(seg, "call", after)
    IN  /\ n1 <= Len(a[before]) /\ n2 <= Len(a[after])
        /\ InOrder(EventsOf(seg, {before, op, after}),
                   HookEvents(a, before, n1) \o BrokerEvents(seg, op)
                      \o HookEvents(a, after, n2))

\* the run() call in progress makes a call of the given hook list or broker
\* operation in this step
Called(name) ==
    CountOf(Seg(app'), "call", name) > CountOf(Seg(app), "call", name)

\* the coroutine `who` moves on from the hooks of list `before` in this step:
\* to the broker operation, to the hooks of list `after`, or to its end
PassesBefore(who, before, op, after) ==
    /\ \/ app[who][1] \in {"scheduled", "signals"}
       \/ app[who][1] = "hook" /\ app[who][2] = before
    /\ Called(op) \/ Called(after) \/ app'[who] = <<"done">>

\* the coroutine `who` ends its sequence in this step
Completes(who) == app[who] # <<"done">> /\ app'[who] = <<"done">>

\* in this step no hook registered with the list is left out: each of them
\* has run to completion in the run() call in progress
AllDone(list) == CountOf(Seg(app'), "done", list) = Len(app[list])

\* C19: in _startup every on_startup hook runs to completion, in registration
\* order, before broker.start() is called; every after_startup hook runs, in
\* registration order, only after broker.start() has completed; once an
\* on_startup hook has raised, neither broker.start() nor an after_startup
\* hook is run.  The hooks are those registered by the time the sequence
\* moves past their list, and broker.start() is called if a broker is set
\* when the on_startup hooks are through.
C19_StartupOrder ==
    /\ [](app # None => SequenceInOrder(app, "on_startup", "broker.start",
                                        "after_startup"))
    /\ [][(app # None /\ app' # None /\ app'.runs = app.runs) =>
            /\ PassesBefore("start", "on_startup", "broker.start",
                            "after_startup") =>
                  /\ AllDone("on_startup")
                  /\ app.broker = Called("broker.start")
            /\ Completes("start") =>
                  /\ AllDone("after_startup")
                  /\ CountOf(Seg(app'), "call", "broker.start")
                        = CountOf(Seg(app'), "done", "broker.start")]_vars

\* C19 witness: the startup sequence of a second run() call finished after
\* two on_startup hooks, registered g then f, broker.start() and an
\* after_startup hook.
C19_Witness ==
    /\ app # None
    /\ app.start = <<"done">> /\ app.runs = 2
    /\ app.on_startup = <<"g", "f">> /\ app.after_startup = <<"f">>
    /\ EventsOf(Seg(app), {"on_startup", "broker.start", "after_startup"})
          = << <<"call", "on_startup", 1, "g">>, <<"done", "on_startup", 1, "g">>,
               <<"call", "on_startup", 2, "f">>, <<"done", "on_startup", 2, "f">>,
               <<"call", "broker.start">>, <<"done", "broker.start">>,
               <<"call", "after_startup", 1, "f">>,
               <<"done", "after_startup", 1, "f">> >>

\* C20: in _shutdown every on_shutdown hook runs to completion, in
\* registration order, before broker.close() is called, and every
\* after_shutdown hook runs, in registration order, only after broker.close()
\* has completed; a run() call executes the shutdown sequence at most once,
\* and only after a handled signal was sent to the process.  The hooks are
\* those registered by the time the sequence moves past their list, and
\* broker.close() is called if a broker is set when the on_shutdown hooks are
\* through.
C20_ShutdownOrder ==
    /\ [](app # None =>
            LET sd == EventsOf(Seg(app), {"_shutdown"})
                ev == EventsOf(Seg(app), {"on_shutdown", "broker.close",
                                          "after_shutdown"})
            IN  /\ SequenceInOrder(app, "on_shutdown", "broker.close",
                                   "after_shutdown")
                /\ Len(sd) <= 1
                /\ ev # <<>> => Len(sd) = 1
                /\ Len(sd) = 1 => (app.sent >= 1 /\ app.pending < app.sent)
                /\ app.stop[1] \in {"hook", "broker.close", "done", "raised"}
                      => Len(sd) = 1)
    /\ [][(app # None /\ app' # None /\ app'.runs = app.runs) =>
            /\ PassesBefore("stop", "on_shutdown", "broker.close",
                            "after_shutdown") =>
                  /\ AllDone("on_shutdown")
                  /\ app.broker = Called("broker.close")
            /\ Completes("stop") =>
                  /\ AllDone("after_shutdown")
                  /\ CountOf(Seg(app'), "call", "broker.close")
                        = CountOf(Seg(app'), "done", "broker.close")]_vars

\* C20 witness: run() returned after one shutdown sequence (an on_shutdown
\* hook, broker.close(), an after_shutdown hook) while a second handled signal
\* is still queued.
C20_Witness ==
    /\ app # None
    /\ app.run = "returned" /\ app.pending = 1 /\ app.sent = 2
    /\ app.on_shutdown = <<"g">> /\ app.after_shutdown = <<"f">>
    /\ EventsOf(Seg(app), {"_shutdown", "on_shutdown", "broker.close",
                           "after_shutdown"})
          = << <<"call", "_shutdown">>,
               <<"call", "on_shutdown", 1, "g">>, <<"done", "on_shutdown", 1, "g">>,
               <<"call", "broker.close">>, <<"done", "broker.close">>,
               <<"call", "after_shutdown", 1, "f">>,
               <<"done", "after_shutdown", 1, "f">> >>

\* ---- C21
\* the k-th middleware of the combined chain of item i: the globals in
\* registration order, then the item's locals
ChainMw(i, k) ==
    IF k <= middlewares THEN <<"gl", k>> ELSE <<"local", i, k - middlewares>>

\* the value that leaves the k-th scope of item i's chain when v0 enters the first
RECURSIVE Chained(_, _, _, _)
Chained(kind, i, k, v0) ==
    IF k = 0 THEN v0
    ELSE ScopeValue(kind, ChainMw(i, k), Chained(kind, i, k - 1, v0))

\* c begins with the entries of the first m scopes of item i's chain, in
\* chain order, each scope receiving what the previous one produced from v0
EnteredInOrder(c, tag, kind, i, m, v0) ==
    \A k \in 1..m :
        c[k] = <<tag, ChainMw(i, k), Chained(kind, i, k - 1, v0),
                 Chained(kind, i, k, v0)>>

\* the events of c after position p are exits of the m scopes entered,
\* innermost first; all m of them once the stack is left
ExitedAfter(c, p, tag, i, m, left) ==
    /\ Len(c) <= p + m
    /\ left => Len(c) = p + m
    /\ \A k \in 1..(Len(c) - p) : c[p + k] = <<tag, ChainMw(i, m + 1 - k)>>

\* the stack whose events are c was used as the code uses it: the n scopes of
\* item i are entered in order from v0; the call (a 3-tuple tagged `call`) is
\* made only once all n are entered, with the last one's value, and the exits
\* follow it; without the call, exits happen only because an entry failed
StackUsedInOrder(c, tag, kind, call, exit, i, n, v0, left) ==
    LET entries == {k \in 1..Len(c) : c[k][1] = tag}
        calls_ == {k \in 1..Len(c) : c[k][1] = call}
        m == Cardinality(entries)
    IN  /\ entries = 1..m /\ m <= n
        /\ EnteredInOrder(c, tag, kind, i, m, v0)
        /\ IF calls_ # {}
           THEN /\ calls_ = {n + 1} /\ m = n
                /\ c[n + 1][3] = Chained(kind, i, n, v0)
                /\ ExitedAfter(c, n + 1, exit, i, n, left)
           ELSE /\ (Len(c) > m \/ left) => m < n
                /\ (Len(c) > m \/ left) => ExitedAfter(c, m, exit, i, m, left)

\* C21: the consume-scopes of a matching item are entered in the order of the
\* combined chain (globals, then the item's locals), each receiving the
\* decoded body the previous one produced; the handler is invoked with the
\* last one's body after all of them are entered and before any is exited;
\* for each publish the publish-scopes are entered in the same order, each
\* receiving the value the previous one produced from the result value (the
\* handler's value, where every middleware lets errors pass through its
\* exit), and the publisher is given the last one's value.
C21_ScopeChains ==
    \A t \in Tasks :
      LET s == tasks[t]
          i == s.chain_item
      IN  i # 0 =>
            LET n == middlewares + calls[i].middlewares
                hs == {p \in 1..Len(s.chain) : s.chain[p][1] = "handler"}
                inConsume == \/ s.pc \in {"consume_scope", "handler"}
                             \/ s.pc = "scope_exit" /\ s.p = 0
                inPublish == \/ s.pc \in {"publish_scope", "publish"}
                             \/ s.pc = "scope_exit" /\ s.p > 0
                v0 == IF s.invoked # <<>>
                         /\ s.invoked[Len(s.invoked)].o \in {"result", "result+reply"}
                      THEN HandlerOutput(i, s.msg) ELSE None
            IN  /\ ExitsClean(s) => (s.pub_chain # <<>> => s.result_msg = v0)
                /\ StackUsedInOrder(s.chain, "consume_scope", "consume", "handler",
                                    "exit_consume", i, n, DecodedBody(i, s.msg),
                                    ~inConsume)
                /\ s.pc = "handler" => (Len(s.chain) = n /\ hs = {})
                /\ (inConsume \/ inPublish) => i = s.i
                /\ \A p \in hs : s.chain[p][2] = i
                /\ s.pub_chain # <<>> =>
                     /\ ExitsClean(s) => (hs # {} /\ s.invoked[Len(s.invoked)].h = i)
                     /\ StackUsedInOrder(s.pub_chain, "publish_scope", "publish",
                                         "publish", "exit_publish", i, n,
                                         s.result_msg, ~inPublish)
                /\ s.pc = "publish" => Len(s.pub_chain) = n

\* a call published through a chain of two scopes, after its handler ran inside
\* a chain of two consume-scopes
C21_Witness ==
    \E t \in Tasks :
      LET s == tasks[t]
      IN  /\ s.pc = "done"
          /\ Len(s.chain) = 5
          /\ s.chain[1][1] = "consume_scope" /\ s.chain[2][1] = "consume_scope"
          /\ s.chain[3][1] = "handler"
          /\ s.chain[2][3] = s.chain[1][4]
          /\ Len(s.pub_chain) = 5
          /\ s.pub_chain[1][1] = "publish_scope" /\ s.pub_chain[2][1] = "publish_scope"
          /\ s.pub_chain[3][1] = "publish"
          /\ s.pub_chain[3][3] = s.pub_chain[2][4]
          /\ Len(s.published) = 1

\* ---- C22
\* C22: during one consume() call on a running dispatcher the log-context key
\* is derived and set exactly once, from the envelope the first item's parser
\* produced; the envelopes of later items never set or overwrite it.
C22_LogContextSetOnce ==
    \A t \in Tasks :
      LET s == tasks[t]
      IN  Len(s.parsed) >= 1 =>
            /\ Len(s.log_sets) = 1
            /\ s.log_sets[1] = LogContext(s.parsed[1], s.msg)
            /\ s.pc \notin {"done", "idle"} =>
                 s.log_context = LogContext(s.parsed[1], s.msg)

\* ---- C23
\* C23: after consume() returns normally the log context equals its value
\* before the call, however many items were scanned.
C23_LogContextRestored ==
    \A t \in Tasks :
      LET s == tasks[t]
      IN  (s.pc = "done" /\ s.ret # None /\ s.ret[1] = "return") =>
             s.log_context = IdleTask.log_context

\* ---- C24
\* item j matched and completed successfully in the call of frame s: its
\* handler returned and every publish owed for the result was made
Succeeded(s, j) ==
    \E m \in 1..Len(s.invoked) :
      /\ s.invoked[m].h = j
      /\ s.invoked[m].o \in HandlerReturns
      /\ PublishedOf(s, j) = Owed(s, m)

\* C24: when the filter of an item is evaluated, the processed flag of the
\* envelope it is given is true exactly when an earlier item of the same call
\* matched and completed successfully (handler returned, all publishes
\* completed); it is false for the first item and before any success.  The
\* flag is set by the success branch alone; where a middleware's exit has
\* swallowed an error or raised one, that branch is the measure of success.
C24_ProcessedFlag ==
    \A t \in Tasks :
      LET s == tasks[t]
      IN  /\ \A n \in 1..Len(s.fevals) :
               /\ ExitsClean(s) =>
                    s.fevals[n][2] = (\E j \in 1..(s.fevals[n][1] - 1) : Succeeded(s, j))
               /\ s.fevals[n][2] =>
                    /\ s.at_success # None
                    /\ SuccessItemOf(s) < s.fevals[n][1]
                    /\ SuccessItemOf(s) \in Accepted(s)
               /\ (s.fevals[n][1] = 1 \/ Accepted(s) = {}) => ~s.fevals[n][2]
          /\ s.pc = "filter" =>
               /\ ExitsClean(s) =>
                    s.msg_processed = (\E j \in 1..(s.i - 1) : Succeeded(s, j))
               /\ s.msg_processed = (s.at_success # None)

\* the filter of a second item was evaluated with the flag set, after the
\* first item's handler returned and its publish completed
C24_Witness ==
    \E t \in Tasks :
      LET s == tasks[t]
      IN  /\ Len(s.fevals) = 2
          /\ s.fevals[1] = <<1, FALSE, TRUE>>
          /\ s.fevals[2][1] = 2 /\ s.fevals[2][2]
          /\ Len(s.published) >= 1

\* ---- C25
\* C25 (as claimed): if a publish or a publish-scope raises, a failure outcome
\* carrying the error is recorded for the item instead of a success and the
\* error propagates to the caller.
C25_PublishErrorIsFailure ==
    \A t \in Tasks :
      LET s == tasks[t]
      IN  (s.exc # None /\ s.exc[2] \in {"publish", "publish_scope"}) =>
            /\ OutcomesOf(s, s.i) # {}
            /\ \A n \in OutcomesOf(s, s.i) :
                 s.triggers[n] = [h |-> s.i, result |-> None, error |-> s.exc]
            /\ s.pc = "done" => s.ret = <<"raise", s.exc>>

\* C25 (amended): an item's outcome is recorded and the message marked
\* processed by it only after its handler returned and every publish
\* completed: while publishes are under way nothing is recorded for the item,
\* and an outcome carrying a result is recorded only with every owed publish
\* made.  If a publish or a publish-scope raises, the remaining publishers are
\* not invoked and the item does not mark the message processed; the error
\* propagates, recorded as a failure carrying it if it is an Exception other
\* than the declared handler error, recorded without the error if it is the
\* declared handler error, not recorded if it is no Exception.  All of this
\* is what the dispatcher does with the errors that reach it: the exit of a
\* consume-scope or publish-scope that swallows an error makes the dispatcher
\* go on as if nothing had been raised (an item whose handler raised is then
\* recorded as a success, the publishers after a failed publish are invoked),
\* and the error such an exit raises is handled in place of the one it saw.
\* Even then a success that carries a message follows a handler invocation
\* that returned, of the item itself or of an item scanned before it (the
\* variable `result` keeps its value from item to item).
C25_SuccessAfterPublishes ==
    \A t \in Tasks :
      LET s == tasks[t]
          inPublish == \/ s.pc \in {"publish_scope", "publish"}
                       \/ s.pc = "scope_exit" /\ s.p > 0
      IN  /\ inPublish =>
               /\ s.processed = s.msg_processed
               /\ OutcomesOf(s, s.i) = {}
               /\ ExitsClean(s) =>
                    /\ s.invoked[Len(s.invoked)].h = s.i
                    /\ s.invoked[Len(s.invoked)].o \in ReturnsPair
          /\ ExitsClean(s) =>
               /\ \A m \in 1..Len(s.invoked), n \in 1..Len(s.triggers) :
                    (s.triggers[n].h = s.invoked[m].h /\ s.triggers[n].result # None) =>
                       PublishedOf(s, s.invoked[m].h) = Owed(s, m)
               /\ s.at_success # None =>
                    /\ s.at_success.invoked >= 1
                    /\ s.invoked[s.at_success.invoked].h = SuccessItemOf(s)
                    /\ s.invoked[s.at_success.invoked].o \in HandlerReturns
                    /\ PublishedOf(s, SuccessItemOf(s)) = Owed(s, s.at_success.invoked)
          /\ (s.at_success # None /\ ~ExitsClean(s)) =>
               \/ \E m \in 1..s.at_success.invoked :
                     /\ s.invoked[m].h <= SuccessItemOf(s)
                     /\ s.invoked[m].o \in ReturnsPair
               \/ s.at_success.result_msg = None
          /\ (s.exc # None /\ s.exc[2] \in {"publish", "publish_scope"}) =>
               /\ s.pc \in {"exit", "done"}
               /\ s.processed = s.msg_processed
               /\ SuccessItemOf(s) # s.i
               /\ ExitsClean(s) =>
                     Len(PublishedOf(s, s.i)) < Len(ExpectedPublishes(s))
               /\ s.exc[1] = "Exception" =>
                     /\ OutcomesOf(s, s.i) = {Len(s.triggers)}
                     /\ s.triggers[Len(s.triggers)] =
                           [h |-> s.i, result |-> None, error |-> s.exc]
               /\ s.exc[1] = "HandlerException" =>
                     /\ OutcomesOf(s, s.i) = {Len(s.triggers)}
                     /\ s.triggers[Len(s.triggers)] =
                           [h |-> s.i, result |-> None, error |-> None]
               /\ s.exc[1] = "BaseException" => OutcomesOf(s, s.i) = {}
               /\ s.pc = "done" => s.ret = <<"raise", s.exc>>

\* the publish to the inline response target raised: the failure was
\* recorded, the static publisher that came after it was never invoked and
\* the call raised
C25_Witness ==
    \E t \in Tasks :
      LET s == tasks[t]
      IN  /\ s.pc = "done"
          /\ s.exc = Err("Exception", "publish", s.i)
          /\ s.triggers[Len(s.triggers)].error = s.exc
          /\ Len(ExpectedPublishes(s)) = 2
          /\ s.published = <<>>
          /\ s.ret[1] = "raise"

\* ---- C26
\* Up to the first success both variants run the same code, so on the same
\* inputs they are in the same state when line 290 has run; the fast path
\* then leaves the loop.  at_success is that state: what the fast path has
\* done and returns.

\* frame s has made no handler invocation, publish or outcome record since
\* its success (these histories only grow)
SameEffects(s) ==
    /\ Len(s.invoked) = s.at_success.invoked
    /\ Len(s.published) = s.at_success.published
    /\ Len(s.triggers) = s.at_success.triggers

\* frame s ended as the fast path ends after its success
EndsAsFastPath(s) ==
    /\ s.ret = <<"return", s.at_success.result_msg>>
    /\ SameEffects(s)

\* C26 as stated: the fast path and the continuing variant give the same
\* return value or raised error, handler invocations, publishes and recorded
\* outcomes, for every message, item list and combination of filter results
\* (compared on the calls in which no middleware's exit raised or swallowed an
\* error).
C26_FastPathEquivalent ==
    \A t \in Tasks :
      LET s == tasks[t]
      IN  (s.pc = "done" /\ s.at_success # None /\ ExitsClean(s)) => EndsAsFastPath(s)

\* a filter evaluated after the success of frame s accepted the message
LaterMatch(s) ==
    \E n \in 1..Len(s.fevals) :
      s.fevals[n][1] > SuccessItemOf(s) /\ s.fevals[n][3]

\* C26 (amended): the fast path stops scanning at the successful item and
\* returns its result; the continuing variant makes the same handler
\* invocations and publishes and records the same outcomes, and returns the
\* same value, unless an item scanned after the successful one raises in its
\* local middleware entry, parser, decoder or filter, or its filter accepts
\* the message.  In the first case it raises that error where the fast path
\* returns; in the second it raises the multiple-consumers assertion when
\* assertions are executed and processes the message with the later item when
\* they are not.  The comparison is of calls in which every middleware lets
\* errors pass through its exit: an exit that raises or swallows an error
\* changes what either variant returns or raises.
C26_FastPathEquivalentUnlessLaterScanRaises ==
    \A t \in Tasks :
      LET s == tasks[t]
          j == SuccessItemOf(s)
          last == s.fevals[Len(s.fevals)]
      IN  (s.pc = "done" /\ s.at_success # None /\ ExitsClean(s)) =>
            /\ IS_OPTIMIZED => (EndsAsFastPath(s) /\ last[1] = j)
            /\ (~IS_OPTIMIZED /\ ~LaterMatch(s)) =>
                 /\ SameEffects(s)
                 /\ IF s.exc = None
                    THEN EndsAsFastPath(s)
                    ELSE /\ s.ret = <<"raise", s.exc>>
                         /\ s.exc[3] > j
                         /\ s.exc[2] \in {"middleware", "parser", "decoder", "filter"}
            /\ (~IS_OPTIMIZED /\ LaterMatch(s)) =>
                 IF debug
                 THEN /\ SameEffects(s)
                      /\ s.ret = <<"raise", s.exc>>
                      /\ s.exc = Err("AssertionError", "multiple consumers", last[1])
                      /\ last[1] > j /\ last[3]
                 ELSE s.chain_item > j

\* the continuing variant scanned a later item after a success, its filter
\* rejected the message, and the call returned the successful item's result
C26_Witness ==
    \E t \in Tasks :
      LET s == tasks[t]
      IN  /\ ~IS_OPTIMIZED
          /\ s.pc = "done" /\ s.at_success # None /\ ExitsClean(s)
          /\ SuccessItemOf(s) = 1
          /\ s.fevals[Len(s.fevals)] = <<2, TRUE, FALSE>>
          /\ Len(s.published) >= 1
          /\ EndsAsFastPath(s)

\* ---- C27
\* scope a is released no later than scope b may be: a local scope of a later
\* item before the local scopes of earlier items, every local before any global
ReleasedBefore(a, b) ==
    IF a[1] = "gl" THEN b[1] = "gl" /\ a[2] > b[2]
    ELSE b[1] = "gl" \/ a[2] > b[2] \/ (a[2] = b[2] /\ a[3] > b[3])

\* the order of teardown and the lock during it, in every state
C27_TeardownState ==
    \A t \in Tasks :
      LET s == tasks[t]
      IN  /\ \A a, b \in 1..Len(s.torn) :
               a < b => ReleasedBefore(s.torn[a], s.torn[b])
          /\ s.pc = "exit" =>
               /\ InLock(s)
               /\ lock.qsize >= 1 /\ lock.unfinished >= 1
          /\ (s.was_running /\ ~InLock(s)) =>
               /\ s.pc = "done"
               /\ Len(s.torn) = Len(s.entered)

\* a close() waiting in the drain is resumed only by the step that empties the
\* lock, and no call is then still tearing down its scopes
C27_DrainStep ==
    (closer = "join" /\ closer' = "woken") =>
        /\ lock'.unfinished = 0
        /\ \A t \in Tasks : tasks'[t].pc # "exit" /\ ~InLock(tasks'[t])

\* C27: the resources of a call are released in reverse order of acquisition:
\* the local scopes of later items before those of earlier items, all local
\* scopes before the global ones, and the Drain Lock only after every
\* middleware scope is torn down; while a teardown is running the lock count
\* is at least 1 and a concurrent close() does not see the lock empty.
C27_ReverseRelease == [](C27_TeardownState) /\ [][C27_DrainStep]_vars

\* a close() is waiting in the drain while a call that entered a global scope
\* and the local scopes of two items has torn down the two local ones, the
\* later item's first, and is about to tear down the global one
C27_Witness ==
    \E t \in Tasks :
      LET s == tasks[t]
      IN  /\ s.pc = "exit"
          /\ closer = "join"
          /\ s.entered = << <<"gl", 1>>, <<"local", 1, 1>>, <<"local", 2, 1>> >>
          /\ s.torn = << <<"local", 2, 1>>, <<"local", 1, 1>> >>
          /\ lock.unfinished = 1

\* ---- C28
\* C28: when a controlled stop makes a consume() call await close(), the call
\* is still counted in the Drain Lock, so the count is at least 1 for the whole
\* close(): the drain wait is never resumed by the lock becoming empty and
\* ends only when the graceful timeout has elapsed (with the timeout unset or
\* zero the call is never suspended in close()); with a finite timeout the
\* stopping call always leaves close().
C28_SelfCloseEndsByTimeout ==
    /\ [](\A t \in Tasks :
            tasks[t].pc = "close" =>
              /\ InLock(tasks[t])
              /\ lock.qsize >= 1 /\ lock.unfinished >= 1
              /\ graceful_timeout \notin {None, <<0>>})
    /\ [][\A t \in Tasks :
            /\ (tasks[t].pc = "close" /\ tasks'[t].pc # "close") =>
                 (tasks[t].expired /\ ~tasks[t].woken /\ lock.unfinished >= 1)
            /\ (tasks[t].pc = "close" /\ tasks'[t].pc = "close") =>
                 ~tasks'[t].woken]_vars
    /\ \A t \in Tasks : (tasks[t].pc = "close") ~> (tasks[t].pc # "close")

\* the deadline of a stopping call's close() has passed after the other
\* in-flight call finished: the stopping call's own slot kept the lock
\* non-empty, so the drain was not resumed before
C28_Witness ==
    \E t, u \in Tasks :
      /\ t # u
      /\ tasks[t].pc = "close" /\ tasks[t].expired /\ ~tasks[t].woken
      /\ tasks[u].pc = "done" /\ tasks[u].was_running
      /\ lock.unfinished = 1

\* ---- C29
\* event e is in the log before position p
LoggedBefore(log, p, e) == \E q \in 1..(p - 1) : log[q] = e

\* C29: in run() the shutdown sequence never begins while startup is in
\* progress: broker.close() is not called before broker.start() has
\* completed, and no on_shutdown hook is called before the last after_startup
\* hook has finished.
C29_NoShutdownDuringStartup ==
    app # None =>
      LET seg == Seg(app) IN
      \A p \in 1..Len(seg) :
        LET e == seg[p]
        IN  /\ e = <<"call", "broker.close">> =>
                 LoggedBefore(seg, p, <<"done", "broker.start">>)
            /\ (e[1] = "call" /\ e[2] = "on_shutdown") =>
                 /\ app.broker => LoggedBefore(seg, p, <<"done", "broker.start">>)
                 /\ \A k \in 1..Len(app.after_startup) :
                      LoggedBefore(seg, p,
                                   <<"done", "after_startup", k, app.after_startup[k]>>)

\* ---- C30
\* the invocations of channel.declare_queue for `queue` that did not raise
DeclarationsOf(queue) ==
    {n \in 1..Len(declarer.declared) :
        /\ declarer.declared[n].queue = queue
        /\ declarer.declared[n].state # "raised"}

\* C30: declare_queue declares each distinct queue at most once: over any
\* interleaving of concurrent calls for the same queue the channel's
\* declare_queue is invoked once, and every call returns the same cached
\* queue object.
C30_DeclaredOnce ==
    declarer # None =>
      \A queue \in Queues :
        /\ Cardinality(DeclarationsOf(queue)) <= 1
        /\ \A a, b \in declarer.returned :
             (a[1] = queue /\ b[1] = queue) => a = b
        /\ \A a \in declarer.returned :
             a[1] = queue => declarer.queues[queue] = a[2]

====
